---- MODULE Spec2Model ----
(***************************************************************************)
(* Model of the normalization and fallback-aggregation layer of the        *)
(* Nebraska sale barn dashboard: the USDA adapters (lib/api), the sale     *)
(* barn catalog, the slug utilities and the API route handlers that chain  *)
(* the adapters and fall back to static demo data.                         *)
(*                                                                         *)
(* Numbers are fixed-point integers in thousandths (185.5 is 185500), so   *)
(* that parseFloat and parseInt are modelled by what they do to the text.  *)
(***************************************************************************)
EXTENDS Integers, Sequences, FiniteSets, TLC

(***************************************************************************)
(* Bounds of the model.                                                    *)
(***************************************************************************)
\* longest upstream list that is enumerated
MaxItems == 2

(***************************************************************************)
(* JavaScript values: undefined, null, NaN, numbers, strings and the        *)
(* functions every object inherits.                                        *)
(***************************************************************************)
Undef == [t |-> "undefined", n |-> 0, s |-> ""]

Null == [t |-> "null", n |-> 0, s |-> ""]

NaN == [t |-> "NaN", n |-> 0, s |-> ""]

Num(n) == [t |-> "number", n |-> n, s |-> ""]

Str(s) == [t |-> "string", n |-> 0, s |-> s]

\* the function an object inherits under the name key
Fn(key) == [t |-> "function", n |-> 0, s |-> key]

\* one unit of the fixed-point representation: three decimal places
Scale == 10 * 10 * 10

\* JavaScript truthiness
Truthy(v) ==
  CASE v.t = "number" -> v.n # 0
    [] v.t = "string" -> v.s # ""
    [] v.t = "function" -> TRUE
    [] OTHER -> FALSE

\* a || b
OrJS(a, b) == IF Truthy(a) THEN a ELSE b

\* a || b || c
OrJS3(a, b, c) == OrJS(OrJS(a, b), c)

\* a || b || c || d
OrJS4(a, b, c, d) == OrJS(OrJS3(a, b, c), d)

Chars(s) == [i \in 1..Len(s) |-> SubSeq(s, i, i)]

Digits == <<"0", "1", "2", "3", "4", "5", "6", "7", "8", "9">>

IsDigit(c) == \E i \in 1..10 : Digits[i] = c

DigitVal(c) == (CHOOSE i \in 1..10 : Digits[i] = c) - 1

IsSpace(c) == c \in {" ", "\t", "\n", "\r"}

\* index of the first character at or after i that is not white space
RECURSIVE SkipSpace(_, _)
SkipSpace(cs, i) ==
  IF i <= Len(cs) /\ IsSpace(cs[i]) THEN SkipSpace(cs, i + 1) ELSE i

\* number of consecutive digits of cs starting at i
RECURSIVE DigitRun(_, _)
DigitRun(cs, i) ==
  IF i <= Len(cs) /\ IsDigit(cs[i]) THEN 1 + DigitRun(cs, i + 1) ELSE 0

\* value of the digits cs[i..j] read as a decimal integer
RECURSIVE DigitsValue(_, _, _)
DigitsValue(cs, i, j) ==
  IF j < i THEN 0 ELSE DigitsValue(cs, i, j - 1) * 10 + DigitVal(cs[j])

\* the fraction .d1d2d3... in thousandths (digits past the third are dropped)
FractionValue(cs, i, k) ==
  (IF k >= 1 THEN DigitVal(cs[i]) * 100 ELSE 0)
  + (IF k >= 2 THEN DigitVal(cs[i + 1]) * 10 ELSE 0)
  + (IF k >= 3 THEN DigitVal(cs[i + 2]) ELSE 0)

\* parseFloat of a string: the longest numeric prefix after leading white
\* space, NaN when there is none
ParseFloatStr(s) ==
  LET cs == Chars(s)
      b == SkipSpace(cs, 1)
      neg == b <= Len(cs) /\ cs[b] = "-"
      i == IF b <= Len(cs) /\ cs[b] \in {"-", "+"} THEN b + 1 ELSE b
      k == DigitRun(cs, i)
      dot == i + k <= Len(cs) /\ cs[i + k] = "."
      f == IF dot THEN DigitRun(cs, i + k + 1) ELSE 0
      mag == DigitsValue(cs, i, i + k - 1) * Scale
             + (IF f > 0 THEN FractionValue(cs, i + k + 1, f) ELSE 0)
  IN IF k = 0 /\ f = 0 THEN NaN ELSE Num(IF neg THEN 0 - mag ELSE mag)

\* parseInt of a string: the leading integer after white space, NaN if none
ParseIntStr(s) ==
  LET cs == Chars(s)
      b == SkipSpace(cs, 1)
      neg == b <= Len(cs) /\ cs[b] = "-"
      i == IF b <= Len(cs) /\ cs[b] \in {"-", "+"} THEN b + 1 ELSE b
      k == DigitRun(cs, i)
      mag == DigitsValue(cs, i, i + k - 1) * Scale
  IN IF k = 0 THEN NaN ELSE Num(IF neg THEN 0 - mag ELSE mag)

\* truncation of a fixed-point number toward zero
Trunc(n) == IF n >= 0 THEN (n \div Scale) * Scale ELSE 0 - (((0 - n) \div Scale) * Scale)

\* parseFloat(v): a number is converted to text and read back
parseFloat(v) ==
  CASE v.t = "string" -> ParseFloatStr(v.s)
    [] v.t = "number" -> v
    [] OTHER -> NaN

\* parseInt(v): a number is converted to text and its integer part read back
parseInt(v) ==
  CASE v.t = "string" -> ParseIntStr(v.s)
    [] v.t = "number" -> Num(Trunc(v.n))
    [] OTHER -> NaN

\* x || 0 for a number x: NaN and 0 give 0
NumOrZero(v) == IF Truthy(v) THEN v.n ELSE 0

(***************************************************************************)
(* Text helpers: String.prototype.toLowerCase and includes.                *)
(***************************************************************************)
Upper == Chars("ABCDEFGHIJKLMNOPQRSTUVWXYZ")

Lower == Chars("abcdefghijklmnopqrstuvwxyz")

LowerChar(c) ==
  IF \E i \in 1..26 : Upper[i] = c
  THEN Lower[CHOOSE i \in 1..26 : Upper[i] = c]
  ELSE c

UpperChar(c) ==
  IF \E i \in 1..26 : Lower[i] = c
  THEN Upper[CHOOSE i \in 1..26 : Lower[i] = c]
  ELSE c

\* concatenation of a sequence of strings
RECURSIVE Join(_)
Join(cs) == IF cs = <<>> THEN "" ELSE Head(cs) \o Join(Tail(cs))

toLowerCase(s) == Join([i \in 1..Len(s) |-> LowerChar(SubSeq(s, i, i))])

\* s.includes(sub)
Includes(s, sub) ==
  \E i \in 1..(Len(s) - Len(sub) + 1) : SubSeq(s, i, i + Len(sub) - 1) = sub

(***************************************************************************)
(* Categorical mappers (lib/api/usda-market-news.ts).  The argument is a   *)
(* JavaScript value; calling toLowerCase on a truthy value that is not a   *)
(* string raises a TypeError.                                              *)
(***************************************************************************)
\* (type || "").toLowerCase() raises
LowerThrows(v) == Truthy(v) /\ v.t # "string"

\* (type || "").toLowerCase()
LowerOf(v) == IF Truthy(v) THEN toLowerCase(v.s) ELSE ""

\* a mapper that compares the text as it is, without toLowerCase
mapPriceType_CaseSensitive(type) ==
  LET lower == IF Truthy(type) THEN type.s ELSE ""
  IN CASE Includes(lower, "formula") -> "formula"
       [] Includes(lower, "forward") -> "forward"
       [] Includes(lower, "grid") -> "negotiated_grid"
       [] OTHER -> "negotiated"

mapPriceType(type) ==
  LET lower == LowerOf(type)
  IN CASE Includes(lower, "formula") -> "formula"
       [] Includes(lower, "forward") -> "forward"
       [] Includes(lower, "grid") -> "negotiated_grid"
       [] OTHER -> "negotiated"

mapTrend(trend) ==
  LET lower == LowerOf(trend)
  IN CASE Includes(lower, "higher") \/ Includes(lower, "up") -> Str("higher")
       [] Includes(lower, "lower") \/ Includes(lower, "down") -> Str("lower")
       [] Includes(lower, "steady") \/ Includes(lower, "unchanged") -> Str("steady")
       [] OTHER -> Undef

(***************************************************************************)
(* Category mapper of the auction comparison table                         *)
(* (components/auctions).  The argument is a text.                         *)
(***************************************************************************)
\* a mapper that labels slaughter cows "Cull Cows"
normalizeCategory_CullCows(cat) ==
  LET lower == toLowerCase(cat)
  IN IF Includes(lower, "steer") THEN "Steers"
     ELSE IF Includes(lower, "heifer") THEN "Heifers"
     ELSE IF Includes(lower, "cow") /\ Includes(lower, "calf") THEN "Cow-Calf Pairs"
     ELSE IF Includes(lower, "bull") /\ Includes(lower, "slaught") THEN "Slaughter Bulls"
     ELSE IF Includes(lower, "cow") /\ (Includes(lower, "break") \/ Includes(lower, "slaught"))
          THEN "Cull Cows"
     ELSE IF Includes(lower, "bull") THEN "Bulls"
     ELSE IF Includes(lower, "cow") THEN "Cows"
     ELSE cat

normalizeCategory(cat) ==
  LET lower == toLowerCase(cat)
  IN IF Includes(lower, "steer") THEN "Steers"
     ELSE IF Includes(lower, "heifer") THEN "Heifers"
     ELSE IF Includes(lower, "cow") /\ Includes(lower, "calf") THEN "Cow-Calf Pairs"
     ELSE IF Includes(lower, "bull") /\ Includes(lower, "slaught") THEN "Slaughter Bulls"
     ELSE IF Includes(lower, "cow") /\ (Includes(lower, "break") \/ Includes(lower, "slaught"))
          THEN "Slaughter Cows"
     ELSE IF Includes(lower, "bull") THEN "Bulls"
     ELSE IF Includes(lower, "cow") THEN "Cows"
     ELSE cat

(***************************************************************************)
(* Slug utilities (lib/slugs.ts).                                          *)
(***************************************************************************)
IsLowerAlnum(c) == IsDigit(c) \/ \E i \in 1..26 : Lower[i] = c

\* \w of a regular expression
IsWordChar(c) == IsLowerAlnum(c) \/ c = "_" \/ \E i \in 1..26 : Upper[i] = c

\* .replace(/[&]/g, "and")
RECURSIVE ReplaceAmp(_)
ReplaceAmp(s) ==
  IF s = "" THEN ""
  ELSE (IF SubSeq(s, 1, 1) = "&" THEN "and" ELSE SubSeq(s, 1, 1))
       \o ReplaceAmp(SubSeq(s, 2, Len(s)))

\* .replace(/[^a-z0-9]+/g, "-"): inRun says the previous character was
\* already part of the run being replaced
RECURSIVE ReplaceNonAlnum(_, _)
ReplaceNonAlnum(s, inRun) ==
  IF s = "" THEN ""
  ELSE LET c == SubSeq(s, 1, 1)
           rest == SubSeq(s, 2, Len(s))
       IN IF IsLowerAlnum(c) THEN c \o ReplaceNonAlnum(rest, FALSE)
          ELSE (IF inRun THEN "" ELSE "-") \o ReplaceNonAlnum(rest, TRUE)

\* .replace(/^-+|-+$/g, "")
RECURSIVE TrimHyphens(_)
TrimHyphens(s) ==
  IF s = "" THEN ""
  ELSE IF SubSeq(s, 1, 1) = "-" THEN TrimHyphens(SubSeq(s, 2, Len(s)))
  ELSE IF SubSeq(s, Len(s), Len(s)) = "-" THEN TrimHyphens(SubSeq(s, 1, Len(s) - 1))
  ELSE s

toSlug(name) == TrimHyphens(ReplaceNonAlnum(ReplaceAmp(toLowerCase(name)), FALSE))

\* .replace(/-/g, " ")
HyphensToSpaces(s) ==
  Join([i \in 1..Len(s) |-> IF SubSeq(s, i, i) = "-" THEN " " ELSE SubSeq(s, i, i)])

\* a word boundary lies between positions i - 1 and i of s
Boundary(s, i) ==
  LET before == i > 1 /\ IsWordChar(SubSeq(s, i - 1, i - 1))
      after == i <= Len(s) /\ IsWordChar(SubSeq(s, i, i))
  IN before # after

\* .replace(/\band\b/g, "&"), scanning from position i
RECURSIVE ReplaceAnd(_, _)
ReplaceAnd(s, i) ==
  IF i > Len(s) THEN ""
  ELSE IF i + 2 <= Len(s) /\ SubSeq(s, i, i + 2) = "and"
          /\ Boundary(s, i) /\ Boundary(s, i + 3)
       THEN "&" \o ReplaceAnd(s, i + 3)
       ELSE SubSeq(s, i, i) \o ReplaceAnd(s, i + 1)

\* .replace(/\b\w/g, (c) => c.toUpperCase())
Capitalize(s) ==
  Join([i \in 1..Len(s) |->
          IF IsWordChar(SubSeq(s, i, i)) /\ Boundary(s, i)
          THEN UpperChar(SubSeq(s, i, i)) ELSE SubSeq(s, i, i)])

fromSlug(slug) == Capitalize(ReplaceAnd(HyphensToSpaces(slug), 1))

REGION_MAP ==
  [nebraska |-> "Nebraska", colorado |-> "Colorado", kansas |-> "Kansas",
   texas |-> "Texas"]
  @@ ("iowa-minnesota" :> "Iowa-Minnesota") @@ ("5-area" :> "5-Area")

MARKET_MAP ==
  ("ogallala-livestock-auction" :> "Ogallala Livestock Auction")
  @@ ("valentine-livestock-auction" :> "Valentine Livestock Auction")
  @@ ("alliance-livestock-auction" :> "Alliance Livestock Auction")
  @@ ("gordon-livestock-auction" :> "Gordon Livestock Auction")
  @@ ("burwell-livestock-market" :> "Burwell Livestock Market")
  @@ ("north-platte-livestock-auction" :> "North Platte Livestock Auction")

\* the names under which an object literal inherits a function from
\* Object.prototype
InheritedKeys ==
  {"constructor", "toString", "valueOf", "toLocaleString", "hasOwnProperty",
   "isPrototypeOf", "propertyIsEnumerable"}

\* map[key] of an object literal: its own entry, else what it inherits, else
\* undefined
Member(map, key) ==
  IF key \in DOMAIN map THEN Str(map[key])
  ELSE IF key \in InheritedKeys THEN Fn(key)
  ELSE Undef

\* REGION_MAP[slug] || fromSlug(slug)
getRegionName(slug) == OrJS(Member(REGION_MAP, slug), Str(fromSlug(slug)))

\* MARKET_MAP[slug] || fromSlug(slug)
getMarketName(slug) == OrJS(Member(MARKET_MAP, slug), Str(fromSlug(slug)))

(***************************************************************************)
(* Sale barn catalog (lib/sale-barns.ts).                                  *)
(***************************************************************************)
Barn(slug, name, city) == [slug |-> slug, name |-> name, city |-> city]

NEBRASKA_SALE_BARNS ==
  << Barn("1860", "Nebraska Weekly Summary", "Statewide"),
     Barn("1836", "Bassett Livestock Auction", "Bassett"),
     Barn("1851", "Burwell Livestock Market", "Burwell"),
     Barn("1838", "Crawford Livestock Market", "Crawford"),
     Barn("1852", "Ericson Livestock Market", "Ericson"),
     Barn("1839", "Huss Livestock Market", "Kearney"),
     Barn("1853", "Imperial Auction Market", "Imperial"),
     Barn("1854", "Lexington Livestock Market", "Lexington"),
     Barn("1850", "Ogallala Livestock Auction", "Ogallala"),
     Barn("1855", "Sheridan Livestock Auction", "Rushville"),
     Barn("1856", "Tri-State Livestock Auction", "McCook"),
     Barn("1857", "Valentine Livestock Auction", "Valentine") >>

\* slugs.includes(slug)
SeqIncludes(seq, e) == \E i \in 1..Len(seq) : seq[i] = e

\* a lookup slug by slug: one barn per requested slug that is in the
\* catalog, in the order of the request
getBarnsBySlugs_RequestOrder(slugs) ==
  LET InCatalog(slug) == \E i \in 1..Len(NEBRASKA_SALE_BARNS) : NEBRASKA_SALE_BARNS[i].slug = slug
      found == SelectSeq(slugs, InCatalog)
  IN IF Len(slugs) = 0 THEN NEBRASKA_SALE_BARNS
     ELSE [k \in 1..Len(found) |->
             NEBRASKA_SALE_BARNS[CHOOSE i \in 1..Len(NEBRASKA_SALE_BARNS) :
                                   NEBRASKA_SALE_BARNS[i].slug = found[k]]]

getBarnsBySlugs(slugs) ==
  IF Len(slugs) = 0 THEN NEBRASKA_SALE_BARNS
  ELSE LET Requested(b) == SeqIncludes(slugs, b.slug)
       IN SelectSeq(NEBRASKA_SALE_BARNS, Requested)

(***************************************************************************)
(* Upstream payloads.  A list element is an object (a map from field names *)
(* to JavaScript values), null, or a bare number.  A JSON body is null, an *)
(* object without the list key, a bare list, or an object wrapping the     *)
(* list under the container key ("results" for MARS, "data" for NASS).     *)
(* An upstream response is a network error, a non-2xx status, a body that  *)
(* is not JSON, or a JSON body.                                            *)
(***************************************************************************)
Obj(f) == [kind |-> "object", f |-> f]

NullItem == [kind |-> "null", f |-> <<>>]

NumberItem == [kind |-> "number", f |-> <<>>]

\* item.k, for an item on which property access does not raise
Get(item, k) == IF k \in DOMAIN item.f THEN item.f[k] ELSE Undef

\* item.k raises a TypeError
PropThrows(item) == item.kind = "null"

Body(shape, items) == [shape |-> shape, items |-> items]

NullBody == Body("null", <<>>)

Response(kind, body) == [kind |-> kind, body |-> body]

\* new Date().toISOString()
NowISO == Str("2026-01-02T00:00:00.000Z")

\* an exception-or-value result of a call
Thrown == [thrown |-> TRUE, value |-> <<>>]

Returned(v) == [thrown |-> FALSE, value |-> v]

\* some element of seq satisfies Test
AnySeq(seq, Test(_)) == \E i \in 1..Len(seq) : Test(seq[i])

\* a list without slice(0, n): every record is processed
Slice_Whole(seq, n) == seq

\* Array.prototype.slice(0, n)
Slice(seq, n) == SubSeq(seq, 1, IF Len(seq) < n THEN Len(seq) ELSE n)

\* Array.prototype.map
Map(seq, F(_)) == [i \in 1..Len(seq) |-> F(seq[i])]

(***************************************************************************)
(* fetchUSDA (lib/api/usda-market-news.ts): the parsed JSON body, or null  *)
(* on a network error, a non-2xx status or a body that does not parse.     *)
(***************************************************************************)
\* a fetchUSDA without its catch block: a network error and a body that
\* does not parse reach the caller as exceptions
fetchUSDA_Rethrow(resp) ==
  IF resp.kind = "json" THEN Returned(resp.body)
  ELSE IF resp.kind = "status" THEN Returned(NullBody)
  ELSE Thrown

fetchUSDA(resp) ==
  IF resp.kind = "json" THEN Returned(resp.body) ELSE Returned(NullBody)

\* Array.isArray(data) ? data : data?.results, followed by the guard
\* !results || !Array.isArray(results) || results.length === 0
Unwrap(data) == IF data.shape \in {"array", "wrapped"} THEN data.items ELSE <<>>

\* results[0]?.k
FirstGet(results, k) ==
  IF PropThrows(results[1]) THEN Undef ELSE Get(results[1], k)

(***************************************************************************)
(* Cash price adapters.                                                    *)
(***************************************************************************)
CashCap == 50

NullReport == [isNull |-> TRUE, reportDate |-> Undef, prices |-> <<>>]

CashReport(date, prices) == [isNull |-> FALSE, reportDate |-> date, prices |-> prices]

CashItemThrows(item) ==
  \/ PropThrows(item)
  \/ LowerThrows(OrJS3(Get(item, "purchase_type"), Get(item, "price_type"), Str("")))

NebraskaPrice(item) ==
  [reportDate |-> OrJS3(Get(item, "report_date"), Get(item, "published_date"), NowISO),
   priceType |-> mapPriceType(OrJS3(Get(item, "purchase_type"), Get(item, "price_type"), Str(""))),
   region |-> Str("Nebraska"),
   headCount |-> NumOrZero(parseInt(OrJS3(Get(item, "head_count"), Get(item, "total_head"), Str("0")))),
   weightedAvgPrice |->
     NumOrZero(parseFloat(OrJS4(Get(item, "wtd_avg"), Get(item, "wtd_avg_price"),
                                Get(item, "weighted_average"), Str("0")))),
   priceRange |->
     [low |-> NumOrZero(parseFloat(OrJS3(Get(item, "price_low"), Get(item, "low_price"), Str("0")))),
      high |-> NumOrZero(parseFloat(OrJS3(Get(item, "price_high"), Get(item, "high_price"), Str("0"))))],
   avgWeight |-> NumOrZero(parseFloat(OrJS3(Get(item, "avg_weight"), Get(item, "average_weight"), Str("0")))),
   dressedBasis |-> OrJS(parseFloat(OrJS(Get(item, "dressed_basis"), Str("0"))), Undef)]

FiveAreaPrice(item) ==
  [reportDate |-> OrJS(Get(item, "report_date"), NowISO),
   priceType |-> mapPriceType(OrJS3(Get(item, "purchase_type"), Get(item, "price_type"), Str(""))),
   region |-> OrJS(Get(item, "region"), Str("5-Area")),
   headCount |-> NumOrZero(parseInt(OrJS(Get(item, "head_count"), Str("0")))),
   weightedAvgPrice |->
     NumOrZero(parseFloat(OrJS4(Get(item, "wtd_avg"), Get(item, "wtd_avg_price"),
                                Get(item, "weighted_average"), Str("0")))),
   priceRange |->
     [low |-> NumOrZero(parseFloat(OrJS(Get(item, "price_low"), Str("0")))),
      high |-> NumOrZero(parseFloat(OrJS(Get(item, "price_high"), Str("0"))))],
   avgWeight |-> NumOrZero(parseFloat(OrJS(Get(item, "avg_weight"), Str("0")))),
   dressedBasis |-> Undef]

\* the candidate field names of each numeric field, in the order in which
\* the two cash adapters try them
NebraskaCandidates ==
  [headCount |-> <<"head_count", "total_head">>,
   weightedAvgPrice |-> <<"wtd_avg", "wtd_avg_price", "weighted_average">>,
   low |-> <<"price_low", "low_price">>,
   high |-> <<"price_high", "high_price">>,
   avgWeight |-> <<"avg_weight", "average_weight">>]

FiveAreaCandidates ==
  [headCount |-> <<"head_count">>,
   weightedAvgPrice |-> <<"wtd_avg", "wtd_avg_price", "weighted_average">>,
   low |-> <<"price_low">>,
   high |-> <<"price_high">>,
   avgWeight |-> <<"avg_weight">>]

\* prices.filter((p) => p.weightedAvgPrice > 0)
ValidPrice(p) == p.weightedAvgPrice > 0

ValidPrices(prices) == SelectSeq(prices, ValidPrice)

\* the adapter on the value fetchUSDA returned
NebraskaDirectFrom(data) ==
  LET results == Unwrap(data)
      sliced == Slice(results, CashCap)
  IN IF Len(results) = 0 THEN Returned(NullReport)
     ELSE IF AnySeq(sliced, CashItemThrows) THEN Thrown
     ELSE Returned(CashReport(OrJS(FirstGet(results, "report_date"), NowISO),
                              ValidPrices(Map(sliced, NebraskaPrice))))

fetchNebraskaDirectSlaughter(resp) ==
  LET data == fetchUSDA(resp)
  IN IF data.thrown THEN Thrown ELSE NebraskaDirectFrom(data.value)

FiveAreaFrom(data) ==
  LET results == Unwrap(data)
      sliced == Slice(results, CashCap)
  IN IF Len(results) = 0 THEN Returned(NullReport)
     ELSE IF AnySeq(sliced, CashItemThrows) THEN Thrown
     ELSE Returned(CashReport(OrJS(FirstGet(results, "report_date"), NowISO),
                              ValidPrices(Map(sliced, FiveAreaPrice))))

fetch5AreaWeeklyPrices(resp) ==
  LET data == fetchUSDA(resp)
  IN IF data.thrown THEN Thrown ELSE FiveAreaFrom(data.value)

(***************************************************************************)
(* Auction adapter: the per-market processing of fetchNebraskaAuctions     *)
(* that runs after every per-market request has settled.                   *)
(***************************************************************************)
AuctionCap == 100

AuctionItemThrows(item) ==
  \/ PropThrows(item)
  \/ LowerThrows(OrJS3(Get(item, "price_trend"), Get(item, "trend"), Str("")))

AuctionSale(item, barn) ==
  [reportDate |-> OrJS(Get(item, "report_date"), NowISO),
   marketLocation |->
     OrJS4(Get(item, "market_location"), Get(item, "market"), Get(item, "city"), Str(barn.city)),
   headCount |-> NumOrZero(parseInt(OrJS3(Get(item, "head_count"), Get(item, "total_head"), Str("0")))),
   avgPrice |->
     NumOrZero(parseFloat(OrJS4(Get(item, "wtd_avg"), Get(item, "avg_price"),
                                Get(item, "weighted_average"), Str("0")))),
   priceRange |->
     [low |-> NumOrZero(parseFloat(OrJS3(Get(item, "price_low"), Get(item, "low_price"), Str("0")))),
      high |-> NumOrZero(parseFloat(OrJS3(Get(item, "price_high"), Get(item, "high_price"), Str("0"))))],
   weightRange |->
     [low |-> NumOrZero(parseFloat(OrJS4(Get(item, "weight_low"), Get(item, "low_weight"),
                                         Get(item, "avg_weight"), Str("0")))),
      high |-> NumOrZero(parseFloat(OrJS4(Get(item, "weight_high"), Get(item, "high_weight"),
                                          Get(item, "avg_weight"), Str("0"))))],
   category |-> OrJS4(Get(item, "class"), Get(item, "commodity"), Get(item, "category"), Str("Mixed")),
   grade |-> OrJS3(Get(item, "grade"), Get(item, "quality_grade"), Get(item, "frame_size")),
   trend |-> mapTrend(OrJS3(Get(item, "price_trend"), Get(item, "trend"), Str("")))]

\* a filter that keeps every sale
ValidSale_NoFilter(sale) == TRUE

\* sales.filter((s) => s.avgPrice > 0)
ValidSale(sale) == sale.avgPrice > 0

\* validSales.reduce((sum, s) => sum + s.headCount, 0)
RECURSIVE SumHeadCount(_)
SumHeadCount(sales) ==
  IF sales = <<>> THEN 0 ELSE Head(sales).headCount + SumHeadCount(Tail(sales))

ValidSalesOf(records, barn) ==
  LET Sale(item) == AuctionSale(item, barn)
  IN SelectSeq(Map(Slice(records, AuctionCap), Sale), ValidSale)

AuctionReportOf(records, barn) ==
  LET validSales == ValidSalesOf(records, barn)
  IN [reportDate |-> OrJS(FirstGet(records, "report_date"), NowISO),
      reportTitle |-> OrJS(FirstGet(records, "report_title"), Str(barn.name)),
      marketName |-> barn.name,
      totalHeadCount |-> SumHeadCount(validSales),
      sales |-> validSales,
      commentary |-> OrJS(FirstGet(records, "market_comments"), FirstGet(records, "narrative"))]

\* one turn of the loop over the settled results: the reports this market
\* contributes (none or one)
BarnReports(barn, data) ==
  LET records == Unwrap(data)
  IN IF Len(records) = 0 THEN <<>>
     ELSE IF Len(ValidSalesOf(records, barn)) > 0
          THEN <<AuctionReportOf(records, barn)>> ELSE <<>>

\* the turn for this market raises
BarnThrows(data) == AnySeq(Slice(Unwrap(data), AuctionCap), AuctionItemThrows)

\* one turn of the loop over results: whether it raises, and what it pushes
BarnTurn(barn, data) == [throws |-> BarnThrows(data), reports |-> BarnReports(barn, data)]

\* the reports pushed by turns i.. of the loop
RECURSIVE AuctionLoop(_, _)
AuctionLoop(turns, i) ==
  IF i > Len(turns) THEN <<>> ELSE turns[i].reports \o AuctionLoop(turns, i + 1)

\* the loop over results, given what each turn does
AuctionsOf(turns) ==
  IF \E i \in 1..Len(turns) : turns[i].throws THEN Thrown
  ELSE Returned(AuctionLoop(turns, 1))

\* a lookup without the default: getBarnsBySlugs on whatever was passed
AuctionBarns_NoDefault(slugs) == getBarnsBySlugs(slugs)

\* the barns fetchNebraskaAuctions requests: slugs is <<>> for undefined
\* and for an empty list
AuctionBarns(slugs) ==
  IF Len(slugs) > 0 THEN getBarnsBySlugs(slugs) ELSE <<NEBRASKA_SALE_BARNS[1]>>

\* the result of fetchNebraskaAuctions once all requests have settled
AuctionsFrom(barns, datas) ==
  AuctionsOf([i \in 1..Len(barns) |-> BarnTurn(barns[i], datas[i])])

(***************************************************************************)
(* Slaughter adapters (lib/api/usda-nass.ts).                              *)
(***************************************************************************)
LMPRCap == 8

NASSCap == 10

\* ((current - previous) / previous) * 100 as the exact fraction
\* num / den of one percent times 100, 0 when the previous count is not positive
PercentChange(current, previous) ==
  IF previous > 0 THEN [num |-> current - previous, den |-> previous]
  ELSE [num |-> 0, den |-> 1]

\* x || 0 where the code has x || fallback: a count that is missing stays 0
NumOr_NoFallback(v, fallback) == IF Truthy(v) THEN v.n ELSE 0

\* x || fallback for a number x
NumOr(v, fallback) == IF Truthy(v) THEN v.n ELSE fallback

LMPRWeek(item) ==
  LET currentValue ==
        NumOrZero(parseInt(OrJS4(Get(item, "current_week_slaughter"), Get(item, "head_count"),
                                 Get(item, "total_head"), Str("0"))))
      prevWeek ==
        NumOr(parseInt(OrJS3(Get(item, "previous_week_slaughter"), Get(item, "prev_week"), Str("0"))),
              currentValue)
      prevYear ==
        NumOr(parseInt(OrJS3(Get(item, "year_ago_slaughter"), Get(item, "prev_year"), Str("0"))),
              currentValue)
  IN [weekEnding |-> OrJS3(Get(item, "week_ending"), Get(item, "report_date"), Str("")),
      cattleSlaughter |-> currentValue,
      previousWeek |-> prevWeek,
      previousYear |-> prevYear,
      percentChangeWeek |-> PercentChange(currentValue, prevWeek),
      percentChangeYear |-> PercentChange(currentValue, prevYear),
      region |-> OrJS(Get(item, "region"), Str("National"))]

\* the body of the try block of fetchLMPRSlaughter
LMPRTry(resp) ==
  IF resp.kind \in {"neterr", "badjson"} THEN Thrown
  ELSE IF resp.kind = "status" THEN Returned(<<>>)
  ELSE LET data == Unwrap(resp.body)
       IN IF Len(data) = 0 THEN Returned(<<>>)
          \* Object.keys(data[0]) in the log line raises on null
          ELSE IF PropThrows(data[1]) THEN Thrown
          ELSE IF AnySeq(Slice(data, LMPRCap), PropThrows) THEN Thrown
          ELSE Returned(Map(Slice(data, LMPRCap), LMPRWeek))

\* try { ... } catch { return [] }
fetchLMPRSlaughter(resp) ==
  IF LMPRTry(resp).thrown THEN Returned(<<>>) ELSE LMPRTry(resp)

\* fetchNASS: null without an API key (no request is made), on a network
\* error, a non-2xx status or a body that does not parse; data.data || data
\* raises inside the try block when the body is null
fetchNASS(hasKey, resp) ==
  IF ~hasKey \/ resp.kind # "json" \/ resp.body.shape = "null" THEN NullBody
  ELSE IF resp.body.shape = "wrapped" THEN Body("array", resp.body.items)
  ELSE resp.body

\* !data || data.length === 0
NASSEmpty(data) == data.shape = "null" \/ (data.shape = "array" /\ Len(data.items) = 0)

\* digits of an ISO date text YYYY-MM-DD as a day count, NaN for other text;
\* a number is a time stamp already
DateTime(v) ==
  IF v.t = "number" THEN v
  ELSE IF v.t = "string" /\ Len(v.s) = 10 /\ SubSeq(v.s, 5, 5) = "-" /\ SubSeq(v.s, 8, 8) = "-"
          /\ DigitRun(Chars(v.s), 1) = 4 /\ DigitRun(Chars(v.s), 6) = 2
          /\ DigitRun(Chars(v.s), 9) = 2
       THEN Num((DigitsValue(Chars(v.s), 1, 4) * 12 + DigitsValue(Chars(v.s), 6, 7)) * 31
                + DigitsValue(Chars(v.s), 9, 10))
       ELSE NaN

\* new Date(item.week_ending || item.end_code || 0).getTime()
WeekTime(item) == DateTime(OrJS3(Get(item, "week_ending"), Get(item, "end_code"), Num(0)))

\* the comparator (a, b) => dateB - dateA is positive; NaN counts as 0
SortsAfter(a, b) ==
  /\ WeekTime(a).t = "number"
  /\ WeekTime(b).t = "number"
  /\ WeekTime(b).n > WeekTime(a).n

\* stable insertion of e into a sorted sequence
RECURSIVE InsertSorted(_, _)
InsertSorted(sorted, e) ==
  IF sorted = <<>> THEN <<e>>
  ELSE IF SortsAfter(sorted[Len(sorted)], e)
       THEN InsertSorted(SubSeq(sorted, 1, Len(sorted) - 1), e) \o <<sorted[Len(sorted)]>>
       ELSE sorted \o <<e>>

\* Array.prototype.sort with that comparator
RECURSIVE SortByWeek(_)
SortByWeek(seq) ==
  IF seq = <<>> THEN <<>>
  ELSE InsertSorted(SortByWeek(SubSeq(seq, 1, Len(seq) - 1)), seq[Len(seq)])

\* item.Value && item.Value !== "(D)"
NASSKeep(item) == Truthy(Get(item, "Value")) /\ Get(item, "Value") # Str("(D)")

\* item.Value.replace(/,/g, "")
StripCommas(s) ==
  Join([i \in 1..Len(s) |-> IF SubSeq(s, i, i) = "," THEN "" ELSE SubSeq(s, i, i)])

\* item.Value.replace raises: the value is truthy but no string
ReplaceThrows(item) == Get(item, "Value").t # "string"

NASSValue(item) == parseInt(Str(StripCommas(Get(item, "Value").s)))

NASSWeek(sorted, index) ==
  LET item == sorted[index]
      currentValue == NumOrZero(NASSValue(item))
      prevValue == IF index + 1 <= Len(sorted)
                   THEN NumOr(NASSValue(sorted[index + 1]), currentValue)
                   ELSE currentValue
  IN [weekEnding |-> OrJS3(Get(item, "week_ending"), Get(item, "end_code"), Str("")),
      cattleSlaughter |-> currentValue,
      previousWeek |-> prevValue,
      previousYear |-> currentValue,
      percentChangeWeek |-> PercentChange(currentValue, prevValue),
      percentChangeYear |-> [num |-> 0, den |-> 1],
      region |-> OrJS3(Get(item, "state_name"), Get(item, "agg_level_desc"), Str("National"))]

\* a map over the whole sorted list, cut to 10 afterwards: the previous
\* week of the last record kept is the 11th record
CattleSlaughterFrom_CutLast(data) ==
  IF data.shape # "array" THEN Returned(<<>>)
  ELSE IF AnySeq(data.items, PropThrows) THEN Thrown
  ELSE LET sorted == SortByWeek(SelectSeq(data.items, NASSKeep))
       IN IF AnySeq(sorted, ReplaceThrows) THEN Thrown
          ELSE Returned(Slice([i \in 1..Len(sorted) |-> NASSWeek(sorted, i)], NASSCap))

\* fetchCattleSlaughter from the value of the query that is used
CattleSlaughterFrom(data) ==
  IF data.shape # "array" THEN Returned(<<>>)
  ELSE IF AnySeq(data.items, PropThrows) THEN Thrown
  ELSE LET sorted == Slice(SortByWeek(SelectSeq(data.items, NASSKeep)), NASSCap)
       IN IF AnySeq(sorted, ReplaceThrows) THEN Thrown
          ELSE Returned([i \in 1..Len(sorted) |-> NASSWeek(sorted, i)])

(***************************************************************************)
(* Static demo providers of the route handlers.                            *)
(***************************************************************************)
\* lastFriday.toISOString()
LastFridayISO == Str("2025-12-26T00:00:00.000Z")

DemoPrice(type, region, head, wavg, low, high, weight, dressed) ==
  [reportDate |-> LastFridayISO, priceType |-> type, region |-> Str(region),
   headCount |-> head, weightedAvgPrice |-> wavg,
   priceRange |-> [low |-> low, high |-> high], avgWeight |-> weight,
   dressedBasis |-> dressed]

\* getDemoCashPriceData of the cash-prices route
getDemoCashPriceData ==
  CashReport(LastFridayISO,
    << DemoPrice("negotiated", "Nebraska", 42500000, 186250, 184000, 188500, 1425000, Num(294500)),
       DemoPrice("negotiated", "Colorado", 18200000, 185750, 183500, 188000, 1415000, Num(293750)),
       DemoPrice("negotiated", "Iowa-Minnesota", 15800000, 186500, 184500, 188500, 1430000, Num(295000)),
       DemoPrice("formula", "Nebraska", 156000000, 293850, 288000, 298000, 1435000, Undef),
       DemoPrice("formula", "Colorado", 78500000, 292500, 287000, 297000, 1428000, Undef),
       DemoPrice("forward", "5-Area", 32000000, 188500, 185000, 192000, 1400000, Undef),
       DemoPrice("negotiated_grid", "Nebraska", 28500000, 295250, 290000, 300500, 1440000, Undef) >>)

\* regionData of getDemoDataForRegion
regionData ==
  [Nebraska |->
     << DemoPrice("negotiated", "Nebraska", 42500000, 186250, 184000, 188500, 1425000, Num(294500)),
        DemoPrice("formula", "Nebraska", 156000000, 293850, 288000, 298000, 1435000, Undef),
        DemoPrice("negotiated_grid", "Nebraska", 28500000, 295250, 290000, 300500, 1440000, Undef) >>,
   Colorado |->
     << DemoPrice("negotiated", "Colorado", 18200000, 185750, 183500, 188000, 1415000, Num(293750)),
        DemoPrice("formula", "Colorado", 78500000, 292500, 287000, 297000, 1428000, Undef) >>]
  @@ ("Iowa-Minnesota" :>
     << DemoPrice("negotiated", "Iowa-Minnesota", 15800000, 186500, 184500, 188500, 1430000, Num(295000)),
        DemoPrice("formula", "Iowa-Minnesota", 62000000, 294150, 289000, 299000, 1432000, Undef) >>)
  @@ ("5-Area" :>
     << DemoPrice("negotiated", "5-Area", 95000000, 186150, 183500, 188500, 1422000, Num(294250)),
        DemoPrice("formula", "5-Area", 320000000, 293450, 287000, 299000, 1433000, Undef),
        DemoPrice("forward", "5-Area", 32000000, 188500, 185000, 192000, 1400000, Undef),
        DemoPrice("negotiated_grid", "5-Area", 58000000, 295850, 290000, 302000, 1438000, Undef) >>)

\* a lookup without the Nebraska default: regionData[regionName] || []
getDemoDataForRegion_NoDefault(regionName) ==
  CashReport(LastFridayISO,
             IF regionName \in DOMAIN regionData THEN regionData[regionName] ELSE <<>>)

\* regionData[regionName] || regionData["Nebraska"] || []
getDemoDataForRegion(regionName) ==
  CashReport(LastFridayISO,
             IF regionName \in DOMAIN regionData THEN regionData[regionName]
             ELSE regionData["Nebraska"])

DemoSale(location, head, avg, low, high, wlow, whigh, category, grade, trend) ==
  [reportDate |-> LastFridayISO, marketLocation |-> Str(location), headCount |-> head,
   avgPrice |-> avg, priceRange |-> [low |-> low, high |-> high],
   weightRange |-> [low |-> wlow, high |-> whigh], category |-> Str(category),
   grade |-> Str(grade), trend |-> Str(trend)]

DemoReport(title, market, total, sales, commentary) ==
  [reportDate |-> LastFridayISO, reportTitle |-> Str(title), marketName |-> market,
   totalHeadCount |-> total, sales |-> sales, commentary |-> Str(commentary)]

\* getDemoAuctionData of the auctions route: the totals are literals
getDemoAuctionData ==
  << DemoReport("Nebraska Livestock Auction Summary", "Ogallala Livestock Auction", 3245000,
       << DemoSale("Ogallala, NE", 425000, 285500, 275000, 295000, 400000, 500000, "Steers", "M&L 1-2", "higher"),
          DemoSale("Ogallala, NE", 380000, 268250, 260000, 278000, 500000, 600000, "Steers", "M&L 1-2", "steady"),
          DemoSale("Ogallala, NE", 315000, 245750, 238000, 255000, 600000, 700000, "Steers", "M&L 1-2", "higher"),
          DemoSale("Ogallala, NE", 290000, 265500, 255000, 275000, 400000, 500000, "Heifers", "M&L 1-2", "steady"),
          DemoSale("Ogallala, NE", 245000, 248250, 240000, 258000, 500000, 600000, "Heifers", "M&L 1-2", "lower"),
          DemoSale("Ogallala, NE", 185000, 125500, 115000, 135000, 1200000, 1600000, "Slaughter Cows", "Breakers 75-80%", "steady") >>,
       "Good demand for quality feeder cattle. Market steady to stronger on light calves."),
     DemoReport("Nebraska Livestock Auction Summary", "Valentine Livestock Auction", 2890000,
       << DemoSale("Valentine, NE", 385000, 288750, 280000, 298000, 400000, 500000, "Steers", "M&L 1-2", "higher"),
          DemoSale("Valentine, NE", 340000, 270500, 262000, 280000, 500000, 600000, "Steers", "M&L 1-2", "steady"),
          DemoSale("Valentine, NE", 275000, 248250, 240000, 258000, 600000, 700000, "Steers", "M&L 1-2", "higher"),
          DemoSale("Valentine, NE", 260000, 268000, 258000, 278000, 400000, 500000, "Heifers", "M&L 1-2", "higher") >>,
       "Active trade with good buyer attendance. Feeder cattle in high demand.") >>

\* marketData of getDemoDataForMarket
marketData ==
  ("Ogallala Livestock Auction" :>
     [commentary |-> "Good demand for quality feeder cattle. Market steady to stronger on light calves.",
      sales |->
       << DemoSale("Ogallala, NE", 425000, 285500, 275000, 295000, 400000, 500000, "Steers", "M&L 1-2", "higher"),
          DemoSale("Ogallala, NE", 380000, 268250, 260000, 278000, 500000, 600000, "Steers", "M&L 1-2", "steady"),
          DemoSale("Ogallala, NE", 315000, 245750, 238000, 255000, 600000, 700000, "Steers", "M&L 1-2", "higher"),
          DemoSale("Ogallala, NE", 290000, 265500, 255000, 275000, 400000, 500000, "Heifers", "M&L 1-2", "steady"),
          DemoSale("Ogallala, NE", 245000, 248250, 240000, 258000, 500000, 600000, "Heifers", "M&L 1-2", "lower"),
          DemoSale("Ogallala, NE", 210000, 228000, 220000, 238000, 600000, 700000, "Heifers", "M&L 1-2", "steady"),
          DemoSale("Ogallala, NE", 185000, 125500, 115000, 135000, 1200000, 1600000, "Slaughter Cows", "Breakers 75-80%", "steady"),
          DemoSale("Ogallala, NE", 120000, 118750, 108000, 128000, 1100000, 1400000, "Slaughter Cows", "Boners 80-85%", "lower"),
          DemoSale("Ogallala, NE", 95000, 102500, 92000, 112000, 900000, 1200000, "Slaughter Cows", "Lean 85-90%", "steady"),
          DemoSale("Ogallala, NE", 75000, 148250, 138000, 158000, 1600000, 2200000, "Slaughter Bulls", "YG 1-2", "higher") >>])
  @@ ("Valentine Livestock Auction" :>
     [commentary |-> "Active trade with good buyer attendance. Feeder cattle in high demand.",
      sales |->
       << DemoSale("Valentine, NE", 385000, 288750, 280000, 298000, 400000, 500000, "Steers", "M&L 1-2", "higher"),
          DemoSale("Valentine, NE", 340000, 270500, 262000, 280000, 500000, 600000, "Steers", "M&L 1-2", "steady"),
          DemoSale("Valentine, NE", 275000, 248250, 240000, 258000, 600000, 700000, "Steers", "M&L 1-2", "higher"),
          DemoSale("Valentine, NE", 260000, 268000, 258000, 278000, 400000, 500000, "Heifers", "M&L 1-2", "higher"),
          DemoSale("Valentine, NE", 230000, 252500, 244000, 262000, 500000, 600000, "Heifers", "M&L 1-2", "steady"),
          DemoSale("Valentine, NE", 195000, 232750, 224000, 242000, 600000, 700000, "Heifers", "M&L 1-2", "higher"),
          DemoSale("Valentine, NE", 160000, 128500, 118000, 138000, 1200000, 1600000, "Slaughter Cows", "Breakers 75-80%", "higher"),
          DemoSale("Valentine, NE", 110000, 120250, 110000, 130000, 1100000, 1400000, "Slaughter Cows", "Boners 80-85%", "steady"),
          DemoSale("Valentine, NE", 80000, 150000, 140000, 160000, 1600000, 2200000, "Slaughter Bulls", "YG 1-2", "higher") >>])

\* marketData[marketName] || marketData["Ogallala Livestock Auction"], with
\* the total computed from the sales
getDemoDataForMarket(marketName) ==
  LET data == IF marketName \in DOMAIN marketData THEN marketData[marketName]
              ELSE marketData["Ogallala Livestock Auction"]
  IN DemoReport(marketName \o " - Weekly Livestock Auction", marketName,
                SumHeadCount(data.sales), data.sales, data.commentary)

\* Math.random(): the k-th draw of a request, in hundredths, from a
\* generator whose seed the request does not control
Draw(seed, k) == ((seed + 1) * (k * 37 + 11) + k * k * 7) % 100

\* Math.round of the positive fraction num / den
Round(num, den) == (num + den \div 2) \div den

\* date.toISOString().split("T")[0] for week i of the demo series
DemoWeekEnding ==
  << "2025-12-28", "2025-12-21", "2025-12-14", "2025-12-07",
     "2025-11-30", "2025-11-23", "2025-11-16", "2025-11-09" >>

\* one turn (i = 0..7) of the loop of getDemoSlaughterData; counts in heads
DemoWeek(seed, i) ==
  LET variance == (Draw(seed, 3 * i + 1) - 50) * 200
      currentSlaughter == 625000 + variance - i * 5000
      prevWeekSlaughter ==
        Round(currentSlaughter * (2000 + (Draw(seed, 3 * i + 2) - 50)), 2000)
      prevYearSlaughter ==
        Round(currentSlaughter * (1250 + (Draw(seed, 3 * i + 3) - 50)), 1250)
  IN [weekEnding |-> Str(DemoWeekEnding[i + 1]),
      cattleSlaughter |-> currentSlaughter * Scale,
      previousWeek |-> prevWeekSlaughter * Scale,
      previousYear |-> prevYearSlaughter * Scale,
      percentChangeWeek |->
        [num |-> currentSlaughter - prevWeekSlaughter, den |-> prevWeekSlaughter],
      percentChangeYear |->
        [num |-> currentSlaughter - prevYearSlaughter, den |-> prevYearSlaughter],
      region |-> Str(IF i < 4 THEN "Nebraska" ELSE "National")]

getDemoSlaughterData(seed) == [k \in 1..8 |-> DemoWeek(seed, k - 1)]

(***************************************************************************)
(* Futures adapter (fetchFuturesData and its helpers) and the mock and     *)
(* demo contract tables.  A quote body is null, an object without          *)
(* chart.result[0].meta, or a chart with a meta block and the last entries *)
(* of the quote arrays; the quote source sends numbers or null.            *)
(***************************************************************************)
\* the clock readings tried: new Date().getFullYear() and getMonth() in
\* January and in March
Clocks == {[year |-> 2026, month |-> 0], [year |-> 2026, month |-> 2]}

MONTH_CODES ==
  [F |-> "January", G |-> "February", H |-> "March", J |-> "April", K |-> "May",
   M |-> "June", N |-> "July", Q |-> "August", U |-> "September", V |-> "October",
   X |-> "November", Z |-> "December"]

\* Object.keys(MONTH_CODES)
MonthCodeKeys == <<"F", "G", "H", "J", "K", "M", "N", "Q", "U", "V", "X", "Z">>

\* Object.keys(MONTH_CODES).indexOf(monthCode)
MonthIndex(code) == (CHOOSE i \in 1..12 : MonthCodeKeys[i] = code) - 1

lcMonths == <<"G", "J", "M", "Q", "V", "Z">>

fcMonths == <<"F", "H", "J", "K", "Q", "U", "V", "X">>

\* `${year % 100}` for the years of the model
TwoDigits(n) == Digits[((n \div 10) % 10) + 1] \o Digits[(n % 10) + 1]

\* the symbols of one year, in trading order, skipping past months of the
\* current year
YearSymbols(baseSymbol, tradingMonths, yearOffset, now) ==
  LET Open(code) == ~(yearOffset = 0 /\ MonthIndex(code) < now.month)
      Symbol(code) == baseSymbol \o code \o TwoDigits((now.year + yearOffset) % 100)
  IN Map(SelectSeq(tradingMonths, Open), Symbol)

\* now is what new Date() returns
generateContractSymbols(baseSymbol, monthsAhead, now) ==
  LET tradingMonths == IF baseSymbol = "LE" THEN lcMonths ELSE fcMonths
  IN Slice(YearSymbols(baseSymbol, tradingMonths, 0, now)
           \o YearSymbols(baseSymbol, tradingMonths, 1, now)
           \o YearSymbols(baseSymbol, tradingMonths, 2, now), monthsAhead)

getContractMonth(symbol) ==
  IF Len(symbol) < 3 THEN "Unknown"
  ELSE LET monthCode == SubSeq(symbol, Len(symbol) - 2, Len(symbol) - 2)
           year == SubSeq(symbol, Len(symbol) - 1, Len(symbol))
       IN (IF monthCode \in DOMAIN MONTH_CODES THEN MONTH_CODES[monthCode] ELSE "Unknown")
          \o " 20" \o year

Contract(symbol, name, month, last, change, pct, open, high, low, volume) ==
  [symbol |-> symbol, name |-> name, contractMonth |-> month, lastPrice |-> last,
   change |-> change, changePercent |-> pct, open |-> open, high |-> high,
   low |-> low, volume |-> volume, lastUpdated |-> NowISO]

getMockLiveCattleData ==
  << Contract("LEG25", "Live Cattle", "February 2025", 185500, 825, 450, 185000, 186700, 184700, 24532000),
     Contract("LEJ25", "Live Cattle", "April 2025", 186750, 650, 350, 186250, 187500, 186000, 18234000),
     Contract("LEM25", "Live Cattle", "June 2025", 187600, 450, 240, 187000, 188300, 186800, 12456000),
     Contract("LEQ25", "Live Cattle", "August 2025", 187300, 350, 190, 186700, 188000, 186500, 8234000) >>

getMockFeederCattleData ==
  << Contract("GFF25", "Feeder Cattle", "January 2025", 252750, 1125, 450, 251950, 254250, 251750, 8432000),
     Contract("GFH25", "Feeder Cattle", "March 2025", 252250, 875, 350, 251550, 253550, 251250, 6234000),
     Contract("GFJ25", "Feeder Cattle", "April 2025", 251500, 650, 260, 250750, 252250, 250550, 4567000),
     Contract("GFK25", "Feeder Cattle", "May 2025", 250750, 450, 180, 250250, 251550, 249950, 3245000) >>

\* getDemoFuturesData of the futures route
getDemoFuturesData ==
  [liveCattle |->
     << Contract("LEG25", "Live Cattle", "February 2025", 185575, 825, 450, 185000, 186250, 184750, 24532000),
        Contract("LEJ25", "Live Cattle", "April 2025", 186825, 650, 350, 186250, 187500, 185750, 18234000),
        Contract("LEM25", "Live Cattle", "June 2025", 183400, 450, 250, 183000, 184000, 182500, 12456000),
        Contract("LEQ25", "Live Cattle", "August 2025", 181850, 350, 190, 181500, 182500, 181000, 8234000) >>,
   feederCattle |->
     << Contract("GFF25", "Feeder Cattle", "January 2025", 252750, 1125, 450, 251750, 253500, 251250, 8432000),
        Contract("GFH25", "Feeder Cattle", "March 2025", 252250, 875, 350, 251500, 253000, 251000, 6234000),
        Contract("GFJ25", "Feeder Cattle", "April 2025", 251500, 650, 260, 251000, 252250, 250500, 4567000),
        Contract("GFK25", "Feeder Cattle", "May 2025", 250750, 450, 180, 250500, 251500, 250000, 3245000) >>]

Chart(meta, quote) == [shape |-> "chart", meta |-> meta, quote |-> quote]

NoQuote == [lastPrice |-> 0, change |-> 0, changePercent |-> 0, open |-> 0,
            high |-> 0, low |-> 0, volume |-> 0]

\* fetchYahooQuote: null unless the body has a meta block; quote maps the
\* array names to the entry at lastIndex
fetchYahooQuote(resp) ==
  IF resp.kind # "json" \/ resp.body.shape # "chart" THEN [isNull |-> TRUE, q |-> NoQuote]
  ELSE LET meta == Obj(resp.body.meta)
           quote == Obj(resp.body.quote)
           prevClose == NumOrZero(OrJS(Get(meta, "chartPreviousClose"), Get(meta, "previousClose")))
           currentPrice == NumOrZero(OrJS(Get(meta, "regularMarketPrice"), Get(quote, "close")))
       IN [isNull |-> FALSE,
           q |-> [lastPrice |-> currentPrice,
                  change |-> currentPrice - prevClose,
                  changePercent |->
                    IF prevClose > 0 THEN ((currentPrice - prevClose) * 100 * Scale) \div prevClose
                    ELSE 0,
                  open |-> NumOr(OrJS(Get(quote, "open"), Get(meta, "regularMarketOpen")), currentPrice),
                  high |-> NumOr(OrJS(Get(quote, "high"), Get(meta, "regularMarketDayHigh")), currentPrice),
                  low |-> NumOr(OrJS(Get(quote, "low"), Get(meta, "regularMarketDayLow")), currentPrice),
                  volume |-> NumOrZero(OrJS(Get(quote, "volume"), Get(meta, "regularMarketVolume")))]]

\* the deferred contract i (1..3) estimated from the front month; step is
\* the spread per month in thousandths, vol the volume share in hundredths,
\* k the index of the first random draw the contract uses
Deferred(q, symbols, name, i, step, volLow, volSpan, seed, k) ==
  LET spread == (i * step + Draw(seed, k) * 5)
                * (IF Draw(seed, k + 1) > 50 THEN 1 ELSE -1)
  IN [symbol |-> symbols[i + 1], name |-> name,
      contractMonth |-> getContractMonth(symbols[i + 1]),
      lastPrice |-> q.lastPrice + spread,
      change |-> (q.change * (8000 + Draw(seed, k + 2) * 40)) \div 10000,
      changePercent |-> (q.changePercent * (8000 + Draw(seed, k + 3) * 40)) \div 10000,
      open |-> q.open + spread, high |-> q.high + spread, low |-> q.low + spread,
      volume |-> (((q.volume \div Scale) * (volLow * 100 + Draw(seed, k + 4) * volSpan))
                  \div 10000) * Scale,
      lastUpdated |-> NowISO]

\* the contracts built from a quote: the front month and three estimates
QuoteContracts(q, base, name, step, volLow, volSpan, seed, k0, now) ==
  LET symbols == generateContractSymbols(base, 4, now)
      front == [symbol |-> symbols[1], name |-> name,
                contractMonth |-> getContractMonth(symbols[1]),
                lastPrice |-> q.lastPrice, change |-> q.change,
                changePercent |-> q.changePercent, open |-> q.open, high |-> q.high,
                low |-> q.low, volume |-> q.volume, lastUpdated |-> NowISO]
  IN <<front>> \o [i \in 1..3 |->
                     Deferred(q, symbols, name, i, step, volLow, volSpan, seed, k0 + 5 * (i - 1))]

fetchLiveCattleFutures(resp, seed, now) ==
  LET quote == fetchYahooQuote(resp)
  IN IF quote.isNull THEN getMockLiveCattleData
     ELSE QuoteContracts(quote.q, "LE", "Live Cattle", 500, 30, 40, seed, 1, now)

fetchFeederCattleFutures(resp, seed, now) ==
  LET quote == fetchYahooQuote(resp)
  IN IF quote.isNull THEN getMockFeederCattleData
     ELSE QuoteContracts(quote.q, "GF", "Feeder Cattle", 750, 20, 30, seed, 16, now)

(***************************************************************************)
(* The upstream responses the model draws from: every list of at most      *)
(* MaxItems elements of a pool of list elements, bare and wrapped, and the *)
(* failures.                                                               *)
(***************************************************************************)
Range(seq) == {seq[i] : i \in 1..Len(seq)}

Lists(pool, n) == UNION {[1..k -> Range(pool)] : k \in 0..n}

Failures ==
  {Response("neterr", NullBody), Response("status", NullBody), Response("badjson", NullBody)}

Responses(pool) ==
  Failures
  \cup {Response("json", b) : b \in {NullBody, Body("object", <<>>)}}
  \cup {Response("json", Body(shape, items)) :
          shape \in {"array", "wrapped"}, items \in Lists(pool, MaxItems)}


CashItems ==
  << Obj([report_date |-> Str("2025-12-26"), purchase_type |-> Str("Negotiated Cash"),
          head_count |-> Str("1,250"), wtd_avg |-> Str("185.50"),
          price_low |-> Str("1,234.50"), price_high |-> Str("187.25"),
          avg_weight |-> Str("1425"), dressed_basis |-> Str("294.5"),
          region |-> Str("NEBRASKA")]),
     Obj([published_date |-> Str("2025-12-19"), price_type |-> Str("Formula Net"),
          total_head |-> Num(15600000), weighted_average |-> Num(293850),
          price_low |-> Str("n/a"), low_price |-> Num(288000), high_price |-> Num(298000),
          average_weight |-> Num(1435000)]),
     Obj([report_date |-> Str("2025-12-26"), wtd_avg |-> Str("N/A"),
          wtd_avg_price |-> Num(-1500), head_count |-> Str("40")]),
     Obj([wtd_avg |-> Num(186000), region |-> Num(5000)]),
     NullItem >>

AuctionItems ==
  << Obj([report_date |-> Str("2025-12-26"), report_title |-> Str("Weekly Auction"),
          class |-> Str("Steers"), head_count |-> Str("1,120"), wtd_avg |-> Str("285.50"),
          price_low |-> Str("1,234.50"), price_high |-> Str("295.00"),
          weight_low |-> Str("400"), weight_high |-> Str("500"),
          grade |-> Str("M&L 1-2"), price_trend |-> Str("Steady to Higher")]),
     Obj([commodity |-> Str("Heifers"), total_head |-> Num(95000), avg_price |-> Num(172250),
          avg_weight |-> Num(550000), trend |-> Str("lower")]),
     Obj([class |-> Str("Bulls"), head_count |-> Str("15"), wtd_avg |-> Str("-1.50")]),
     NullItem >>

LMPRItems ==
  << Obj([week_ending |-> Str("2025-12-27"), current_week_slaughter |-> Str("612000"),
          previous_week_slaughter |-> Str("600000"), year_ago_slaughter |-> Str("625000"),
          region |-> Str("5-Area")]),
     Obj([report_date |-> Str("2025-12-20"), head_count |-> Num(600000000),
          prev_week |-> Str("n/a")]),
     NumberItem,
     NullItem >>

NASSItems ==
  << Obj([Value |-> Str("125,500"), week_ending |-> Str("2025-12-20"),
          state_name |-> Str("NEBRASKA")]),
     Obj([Value |-> Str("131,000"), week_ending |-> Str("2025-12-27"),
          agg_level_desc |-> Str("NATIONAL")]),
     Obj([Value |-> Str("(D)"), week_ending |-> Str("2025-12-13")]),
     Obj([Value |-> Num(120000000), week_ending |-> Str("2025-12-06")]),
     NullItem >>

\* quote bodies: meta blocks and last quote entries the quote source sends
QuoteBodies ==
  { NullBody, Body("object", <<>>),
    Chart([regularMarketPrice |-> Num(185575), chartPreviousClose |-> Num(184750),
           regularMarketVolume |-> Num(24532000)],
          [close |-> Num(185575), open |-> Num(185000), high |-> Num(186250),
           low |-> Num(184750), volume |-> Null]),
    Chart([previousClose |-> Num(252000)], [close |-> Num(252750)]),
    Chart([regularMarketPrice |-> Num(186000), previousClose |-> Num(186000)],
          [close |-> Num(186000)]),
    Chart([regularMarketPrice |-> Num(185225), previousClose |-> Num(185225)],
          [close |-> Num(185225)]),
    Chart([regularMarketPrice |-> Null], [close |-> Null]) }

QuoteResponses == Failures \cup {Response("json", b) : b \in QuoteBodies}

(***************************************************************************)
(* Route handlers: the response each GET handler sends, as a function of   *)
(* what its adapters returned or raised.  from records which return       *)
(* statement produced the data: one that returns adapter data or one that  *)
(* returns the static demo data.                                           *)
(***************************************************************************)
ApiResponse(status, data, error, from) ==
  [status |-> status, data |-> data, error |-> error, from |-> from]

CachedError == Str("Using cached data - live feed unavailable")

DemoError == Str("Using demo data - live feed unavailable")

\* an exception that leaves a handler: the framework answers 500, no data
Uncaught == ApiResponse(500, <<>>, Str("Internal Server Error"), "none")

\* !slaughterData || slaughterData.length === 0, on what the adapter returned
SlaughterEmpty(r) == Len(r.value) = 0

\* the slaughter route once its chain has ended with r (result or exception);
\* demoData is what getDemoSlaughterData() returns when called
SlaughterResponse(r, demoData) ==
  IF r.thrown THEN ApiResponse(200, demoData, CachedError, "demo")
  ELSE IF SlaughterEmpty(r) THEN ApiResponse(200, demoData, Null, "demo")
  ELSE ApiResponse(200, r.value, Null, "adapter")

\* a test that takes a report without prices for data: !priceReport
CashEmpty_NullOnly(r) == r.value.isNull

\* !priceReport || priceReport.prices.length === 0
CashEmpty(r) == r.value.isNull \/ Len(r.value.prices) = 0

\* the cash-prices route once its chain has ended with r
CashResponse(r) ==
  IF r.thrown THEN ApiResponse(200, getDemoCashPriceData, CachedError, "demo")
  ELSE IF CashEmpty(r) THEN ApiResponse(200, getDemoCashPriceData, DemoError, "demo")
  ELSE ApiResponse(200, r.value, Null, "adapter")

\* p.region.toLowerCase() raises
RegionThrows(p) == p.region.t # "string"

\* a route without its catch block
RegionCatch_Rethrow(regionName) == Uncaught

\* the catch block of the cash-prices/[region] route
RegionCatch(regionName) ==
  ApiResponse(200, getDemoDataForRegion(regionName), CachedError, "demo")

\* a route that short-circuits: the second report is used only when the
\* first has no prices
RegionCombined_FirstWins(regionName, first, second) ==
  LET wanted == toLowerCase(regionName)
      InRegion(p) == toLowerCase(p.region.s) = wanted
      source == IF Len(first.prices) > 0 THEN first ELSE second
      regionPrices == SelectSeq(source.prices, InRegion)
  IN IF AnySeq(source.prices, RegionThrows)
     THEN RegionCatch(regionName)
     ELSE IF Len(regionPrices) > 0
          THEN ApiResponse(200, CashReport(regionPrices[1].reportDate, regionPrices), Null, "adapter")
          ELSE ApiResponse(200, getDemoDataForRegion(regionName), Null, "demo")

\* the cash-prices/[region] route once both adapters have returned
RegionCombined(regionName, priceReport, fiveAreaReport) ==
  LET allPrices == priceReport.prices \o fiveAreaReport.prices
      wanted == toLowerCase(regionName)
      InRegion(p) == toLowerCase(p.region.s) = wanted
      regionPrices == SelectSeq(allPrices, InRegion)
  IN IF AnySeq(allPrices, RegionThrows)
     THEN RegionCatch(regionName)
     ELSE IF Len(regionPrices) > 0
          THEN ApiResponse(200, CashReport(regionPrices[1].reportDate, regionPrices), Null, "adapter")
          ELSE ApiResponse(200, getDemoDataForRegion(regionName), Null, "demo")

\* the auctions route once fetchNebraskaAuctions has ended with r
AuctionsResponse(r) ==
  IF r.thrown THEN ApiResponse(200, getDemoAuctionData, CachedError, "demo")
  ELSE IF Len(r.value) = 0 THEN ApiResponse(200, getDemoAuctionData, DemoError, "demo")
  ELSE ApiResponse(200, r.value, Null, "adapter")

\* the auctions/[market] route once fetchNebraskaAuctions has ended with r
MarketResponse(market, r) ==
  LET marketName == getMarketName(market).s
      Matches(report) == toSlug(report.marketName) = market
  IN IF r.thrown THEN ApiResponse(200, getDemoDataForMarket(marketName), CachedError, "demo")
     ELSE IF AnySeq(r.value, Matches)
          THEN ApiResponse(200, SelectSeq(r.value, Matches)[1], Null, "adapter")
          ELSE ApiResponse(200, getDemoDataForMarket(marketName), Null, "demo")

\* the futures route: fetchFuturesData never raises
FuturesResponse(liveCattle, feederCattle) ==
  ApiResponse(200, [liveCattle |-> liveCattle, feederCattle |-> feederCattle], Null, "adapter")

\* String.prototype.split(","), String.prototype.trim
RECURSIVE Split(_)
Split(s) ==
  IF ~Includes(s, ",") THEN <<s>>
  ELSE LET i == CHOOSE j \in 1..Len(s) :
                  SubSeq(s, j, j) = "," /\ ~Includes(SubSeq(s, 1, j - 1), ",")
       IN <<SubSeq(s, 1, i - 1)>> \o Split(SubSeq(s, i + 1, Len(s)))

RECURSIVE Trim(_)
Trim(s) ==
  IF s = "" THEN ""
  ELSE IF IsSpace(SubSeq(s, 1, 1)) THEN Trim(SubSeq(s, 2, Len(s)))
  ELSE IF IsSpace(SubSeq(s, Len(s), Len(s))) THEN Trim(SubSeq(s, 1, Len(s) - 1))
  ELSE s

\* the slugs the auctions route passes: <<>> stands for undefined and for
\* an empty list, which fetchNebraskaAuctions treats alike
RouteSlugs(barnsParam) ==
  IF ~Truthy(barnsParam) THEN <<>>
  ELSE LET NonEmpty(e) == e # ""
       IN SelectSeq(Map(Split(barnsParam.s), Trim), NonEmpty)

(***************************************************************************)
(* One request against the API.  Every await of an adapter is a point      *)
(* where the handler is suspended until the upstream answers.              *)
(***************************************************************************)
MaxSeed == 1

Seeds == 0..MaxSeed

\* the region and market path segments and the barns query strings tried
RegionSlugs == {"nebraska", "5-area", "south-dakota"}

MarketSlugs ==
  {"nebraska-weekly-summary", "ogallala", "north-platte", "ogallala-livestock-auction",
   "alliance-livestock-auction"}

BarnsParams ==
  {Null, Str(""), Str(" , "), Str("9999"), Str("1836"), Str("1860, 1836"), Str("1857,,1781 "),
   Str("1836,1860,1836")}

\* the upstream answers drawn for each adapter
LMPRResponses == Responses(LMPRItems)

\* a weekly series as the NASS source reports it: one record per week, a
\* withheld week and a week with a count of 0 among them
SeriesWeekEndings ==
  << "2025-10-04", "2025-10-11", "2025-10-18", "2025-10-25", "2025-11-01", "2025-11-08",
     "2025-11-15", "2025-11-22", "2025-11-29", "2025-12-06", "2025-12-13", "2025-12-20",
     "2025-12-27" >>

SeriesValues ==
  << "120,500", "121,000", "(D)", "122,250", "123,000", "0", "124,750", "125,500",
     "126,000", "127,250", "128,000", "129,500", "131,000" >>

SeriesRecord(k) ==
  Obj([Value |-> Str(SeriesValues[k]), week_ending |-> Str(SeriesWeekEndings[k]),
       state_name |-> Str("NEBRASKA")])

\* the first n weeks of the series, oldest first, newest first, or starting
\* in the middle
SeriesLists ==
  UNION {{[i \in 1..n |-> SeriesRecord(i)],
          [i \in 1..n |-> SeriesRecord(n + 1 - i)],
          [i \in 1..n |-> SeriesRecord(((i + 4) % n) + 1)]} :
         n \in (NASSCap + 1)..Len(SeriesValues)}

NASSResponses ==
  Responses(NASSItems)
  \cup {Response("json", Body(shape, items)) :
          shape \in {"array", "wrapped"}, items \in SeriesLists}

CashResponses == Responses(CashItems)

\* each adapter applied to every answer it can be given
LMPRResults == [resp \in LMPRResponses |-> fetchLMPRSlaughter(resp)]

NASSDatas == [resp \in NASSResponses |-> fetchNASS(TRUE, resp)]

CattleSlaughterResults == [resp \in NASSResponses |-> CattleSlaughterFrom(NASSDatas[resp])]

NebraskaResults == [resp \in CashResponses |-> fetchNebraskaDirectSlaughter(resp)]

FiveAreaResults == [resp \in CashResponses |-> fetch5AreaWeeklyPrices(resp)]

\* getRegionName of every region segment tried
RegionNames == [slug \in RegionSlugs |-> getRegionName(slug).s]

\* the reports the two cash adapters can return
NebraskaReports ==
  {NebraskaResults[resp].value : resp \in {q \in CashResponses : ~NebraskaResults[q].thrown}}

FiveAreaReports ==
  {FiveAreaResults[resp].value : resp \in {q \in CashResponses : ~FiveAreaResults[q].thrown}}

\* the cash-prices/[region] route's answer for every region name and every
\* pair of reports its two adapters can return
RegionOutcomes ==
  [regionName \in {RegionNames[slug] : slug \in RegionSlugs} |->
     [first \in NebraskaReports |->
        [second \in FiveAreaReports |-> RegionCombined(regionName, first, second)]]]

\* getDemoSlaughterData() for every run of random draws
DemoSlaughterData == [seed \in Seeds |-> getDemoSlaughterData(seed)]

\* the random draws a slaughter response depends on
SlaughterSeeds(r) == IF r.thrown \/ SlaughterEmpty(r) THEN Seeds ELSE {0}

VARIABLES
  endpoint,     \* the route the request is for
  arg,          \* its path segment or query string
  nassKey,      \* whether NASS_API_KEY is set in the environment
  pc,           \* where the handler is suspended
  trace,        \* the adapter invocations and completions, in order
  last,         \* the adapter call that completed most recently
  priceReport,  \* cash routes: what the first adapter returned
  stateData,    \* fetchCattleSlaughter: the empty answer to the state query
  fetches,      \* fetchNebraskaAuctions: one entry per requested barn
  liveCattle,   \* fetchFuturesData: the live cattle contracts
  today,        \* futures route: the date new Date() returns during the request
  response,     \* the responses sent
  reports,        \* AuctionSales: the reports shown
  selectedSlugs,  \* AuctionSales: the barns selected
  loading,        \* AuctionSales: whether the skeleton is shown
  error,          \* AuctionSales: the message kept, or null
  view,           \* AuctionSales: "barns" or "compare"
  requests        \* AuctionSales: the fetchData calls so far, settled or in flight

\* the state of the AuctionSales component
component == <<reports, selectedSlugs, loading, error, view, requests>>

\* the state of a request to a route
server ==
  <<endpoint, arg, nassKey, pc, trace, last, priceReport, stateData, fetches,
    liveCattle, today, response>>

vars == <<server, component>>

\* the useState initial values of AuctionSales
Unmounted ==
  /\ reports = <<>>
  /\ selectedSlugs = <<"1860">>
  /\ loading = TRUE
  /\ error = Null
  /\ view = "barns"
  /\ requests = <<>>

Invoke(adapter) == [ev |-> "invoke", adapter |-> adapter]

Settle(adapter) == [ev |-> "settle", adapter |-> adapter]

Completed(adapter, resps, result) ==
  [adapter |-> adapter, resps |-> resps, result |-> result]

Init ==
  /\ endpoint = "none"
  /\ arg = Null
  /\ nassKey = FALSE
  /\ pc = "idle"
  /\ trace = <<>>
  /\ last = Completed("none", <<>>, Returned(<<>>))
  /\ priceReport = NullReport
  /\ stateData = NullBody
  /\ fetches = <<>>
  /\ liveCattle = <<>>
  /\ today = [year |-> 2026, month |-> 0]
  /\ response = <<>>
  /\ Unmounted

Send(r) == response' = Append(response, r) /\ pc' = "done"

(* ---- GET /api/slaughter ---- *)
SlaughterStart ==
  /\ pc = "idle"
  /\ endpoint' = "slaughter"
  /\ nassKey' \in BOOLEAN
  /\ pc' = "lmpr"
  /\ trace' = <<Invoke("fetchLMPRSlaughter")>>
  /\ UNCHANGED <<arg, last, priceReport, stateData, fetches, liveCattle, today, response, component>>

LMPRSettle ==
  /\ pc = "lmpr"
  /\ \E resp \in LMPRResponses :
       LET r == LMPRResults[resp]
       IN /\ last' = Completed("fetchLMPRSlaughter", <<resp>>, r)
          /\ IF ~r.thrown /\ SlaughterEmpty(r)
             THEN /\ pc' = "nassState"
                  /\ trace' = trace \o <<Settle("fetchLMPRSlaughter"),
                                         Invoke("fetchCattleSlaughter")>>
                  /\ response' = response
             ELSE /\ trace' = Append(trace, Settle("fetchLMPRSlaughter"))
                  /\ \E seed \in SlaughterSeeds(r) : Send(SlaughterResponse(r, DemoSlaughterData[seed]))
  /\ UNCHANGED <<endpoint, arg, nassKey, priceReport, stateData, fetches, liveCattle, today, component>>

\* fetchCattleSlaughter returns or raises r, and the route answers
CattleSlaughterEnd(resps, r) ==
  /\ last' = Completed("fetchCattleSlaughter", resps, r)
  /\ trace' = Append(trace, Settle("fetchCattleSlaughter"))
  /\ \E seed \in SlaughterSeeds(r) : Send(SlaughterResponse(r, DemoSlaughterData[seed]))

\* the state query ends; without an API key fetchNASS sends no request
NASSStateSettle ==
  /\ pc = "nassState"
  /\ IF ~nassKey
     THEN /\ pc' = "nassNational"
          /\ UNCHANGED <<stateData, last, trace, response>>
     ELSE \E resp \in NASSResponses :
            LET data == NASSDatas[resp]
            IN IF NASSEmpty(data)
               THEN /\ pc' = "nassNational"
                    /\ stateData' = data
                    /\ UNCHANGED <<last, trace, response>>
               ELSE /\ CattleSlaughterEnd(<<resp>>, CattleSlaughterResults[resp])
                    /\ UNCHANGED stateData
  /\ UNCHANGED <<endpoint, arg, nassKey, priceReport, fetches, liveCattle, today, component>>

\* the national query ends
NASSNationalSettle ==
  /\ pc = "nassNational"
  /\ IF ~nassKey
     THEN CattleSlaughterEnd(<<>>, CattleSlaughterFrom(fetchNASS(FALSE, Response("neterr", NullBody))))
     ELSE \E resp \in NASSResponses :
            CattleSlaughterEnd(<<resp>>, CattleSlaughterResults[resp])
  /\ UNCHANGED <<endpoint, arg, nassKey, priceReport, stateData, fetches, liveCattle, today, component>>

(* ---- GET /api/cash-prices ---- *)
CashStart ==
  /\ pc = "idle"
  /\ endpoint' = "cash"
  /\ pc' = "cashPrimary"
  /\ trace' = <<Invoke("fetchNebraskaDirectSlaughter")>>
  /\ UNCHANGED <<arg, nassKey, last, priceReport, stateData, fetches, liveCattle, today, response, component>>

CashPrimarySettle ==
  /\ pc = "cashPrimary"
  /\ \E resp \in CashResponses :
       LET r == NebraskaResults[resp]
       IN /\ last' = Completed("fetchNebraskaDirectSlaughter", <<resp>>, r)
          /\ IF ~r.thrown /\ CashEmpty(r)
             THEN /\ pc' = "cashSecondary"
                  /\ trace' = trace \o <<Settle("fetchNebraskaDirectSlaughter"),
                                         Invoke("fetch5AreaWeeklyPrices")>>
                  /\ response' = response
             ELSE /\ trace' = Append(trace, Settle("fetchNebraskaDirectSlaughter"))
                  /\ Send(CashResponse(r))
  /\ UNCHANGED <<endpoint, arg, nassKey, priceReport, stateData, fetches, liveCattle, today, component>>

CashSecondarySettle ==
  /\ pc = "cashSecondary"
  /\ \E resp \in CashResponses :
       LET r == FiveAreaResults[resp]
       IN /\ last' = Completed("fetch5AreaWeeklyPrices", <<resp>>, r)
          /\ trace' = Append(trace, Settle("fetch5AreaWeeklyPrices"))
          /\ Send(CashResponse(r))
  /\ UNCHANGED <<endpoint, arg, nassKey, priceReport, stateData, fetches, liveCattle, today, component>>

(* ---- GET /api/cash-prices/[region] ---- *)
RegionStart ==
  /\ pc = "idle"
  /\ endpoint' = "cashRegion"
  /\ \E region \in RegionSlugs : arg' = Str(region)
  /\ pc' = "regionPrimary"
  /\ trace' = <<Invoke("fetchNebraskaDirectSlaughter")>>
  /\ UNCHANGED <<nassKey, last, priceReport, stateData, fetches, liveCattle, today, response, component>>

RegionPrimarySettle ==
  /\ pc = "regionPrimary"
  /\ LET regionName == RegionNames[arg.s]
     IN \E resp \in CashResponses :
          LET r == NebraskaResults[resp]
          IN /\ last' = Completed("fetchNebraskaDirectSlaughter", <<resp>>, r)
             /\ IF r.thrown
                THEN /\ trace' = Append(trace, Settle("fetchNebraskaDirectSlaughter"))
                     /\ Send(RegionCatch(regionName))
                     /\ UNCHANGED priceReport
                ELSE /\ pc' = "regionSecondary"
                     /\ priceReport' = r.value
                     /\ trace' = trace \o <<Settle("fetchNebraskaDirectSlaughter"),
                                            Invoke("fetch5AreaWeeklyPrices")>>
                     /\ response' = response
  /\ UNCHANGED <<endpoint, arg, nassKey, stateData, fetches, liveCattle, today, component>>

RegionSecondarySettle ==
  /\ pc = "regionSecondary"
  /\ LET regionName == RegionNames[arg.s]
     IN \E resp \in CashResponses :
          LET r == FiveAreaResults[resp]
          IN /\ last' = Completed("fetch5AreaWeeklyPrices", <<resp>>, r)
             /\ trace' = Append(trace, Settle("fetch5AreaWeeklyPrices"))
             /\ Send(IF r.thrown THEN RegionCatch(regionName)
                     ELSE RegionOutcomes[regionName][priceReport][r.value])
  /\ UNCHANGED <<endpoint, arg, nassKey, priceReport, stateData, fetches, liveCattle, today, component>>

(* ---- GET /api/auctions and GET /api/auctions/[market] ---- *)
AuctionResponses == Responses(AuctionItems)

\* every barn's turn of the loop on every answer fetchUSDA can hand it
AuctionDatas == {fetchUSDA(resp).value : resp \in AuctionResponses}

BarnTurns ==
  [slug \in {NEBRASKA_SALE_BARNS[i].slug : i \in 1..Len(NEBRASKA_SALE_BARNS)} |->
     [data \in AuctionDatas |-> BarnTurn(getBarnsBySlugs(<<slug>>)[1], data)]]

\* fetchNebraskaAuctions(slugs) up to its await: barns.map issues one request
\* per barn; failed records that the request ended in a network error, a
\* non-2xx status or a body that is not JSON, at the position of the request
\* in the order of completion (0 while it is in flight)
Requested(slugs) ==
  LET barns == AuctionBarns(slugs)
  IN [i \in 1..Len(barns) |-> [barn |-> barns[i], settled |-> FALSE, failed |-> FALSE,
                             rejected |-> FALSE, data |-> NullBody, at |-> 0]]

AuctionsStart ==
  /\ pc = "idle"
  /\ endpoint' = "auctions"
  /\ \E barnsParam \in BarnsParams :
       /\ arg' = barnsParam
       /\ fetches' = Requested(RouteSlugs(barnsParam))
       /\ IF Len(fetches') = 0
          THEN /\ last' = Completed("fetchNebraskaAuctions", <<>>, Returned(<<>>))
               /\ trace' = <<Invoke("fetchNebraskaAuctions"), Settle("fetchNebraskaAuctions")>>
               /\ Send(AuctionsResponse(Returned(<<>>)))
          ELSE /\ pc' = "fanout"
               /\ trace' = <<Invoke("fetchNebraskaAuctions")>>
               /\ UNCHANGED <<last, response>>
  /\ UNCHANGED <<nassKey, priceReport, stateData, liveCattle, today, component>>

MarketStart ==
  /\ pc = "idle"
  /\ endpoint' = "auctionMarket"
  /\ \E market \in MarketSlugs : arg' = Str(market)
  /\ fetches' = Requested(<<>>)
  /\ pc' = "fanout"
  /\ trace' = <<Invoke("fetchNebraskaAuctions")>>
  /\ UNCHANGED <<nassKey, last, priceReport, stateData, liveCattle, today, response, component>>

AllSettled(fs) == \A i \in 1..Len(fs) : fs[i].settled

\* the number of requests that have ended
SettledCount(fs) == Cardinality({i \in 1..Len(fs) : fs[i].settled})

\* the index of the request that was the k-th to end
EndedAt(fs, k) == CHOOSE i \in 1..Len(fs) : fs[i].at = k

\* a loop over the results in the order in which the requests ended
AuctionsResult_CompletionOrder(fs) ==
  IF \E i \in 1..Len(fs) : fs[i].rejected THEN Thrown
  ELSE AuctionsOf([k \in 1..Len(fs) |->
                     BarnTurns[fs[EndedAt(fs, k)].barn.slug][fs[EndedAt(fs, k)].data]])

\* fetchNebraskaAuctions from Promise.all on: the results are in the order of
\* the requests
AuctionsResult(fs) ==
  IF \E i \in 1..Len(fs) : fs[i].rejected THEN Thrown
  ELSE AuctionsOf([i \in 1..Len(fs) |-> BarnTurns[fs[i].barn.slug][fs[i].data]])

\* one barn's request ends; the last one to end resumes fetchNebraskaAuctions
\* and then the route
AuctionFetchSettle ==
  /\ pc = "fanout"
  /\ \E i \in 1..Len(fetches), resp \in AuctionResponses :
       /\ ~fetches[i].settled
       /\ fetches' = [fetches EXCEPT ![i] = [barn |-> fetches[i].barn, settled |-> TRUE,
                                            failed |-> resp.kind # "json",
                                            rejected |-> fetchUSDA(resp).thrown,
                                            data |-> fetchUSDA(resp).value,
                                            at |-> SettledCount(fetches) + 1]]
       /\ IF AllSettled(fetches')
          THEN LET r == AuctionsResult(fetches')
               IN /\ last' = Completed("fetchNebraskaAuctions", <<>>, r)
                  /\ trace' = Append(trace, Settle("fetchNebraskaAuctions"))
                  /\ Send(IF endpoint = "auctions" THEN AuctionsResponse(r)
                          ELSE MarketResponse(arg.s, r))
          ELSE UNCHANGED <<pc, last, trace, response>>
  /\ UNCHANGED <<endpoint, arg, nassKey, priceReport, stateData, liveCattle, today, component>>

(* ---- GET /api/futures ---- *)
\* the random draws a contract list depends on
QuoteSeeds(resp) == IF fetchYahooQuote(resp).isNull THEN {0} ELSE Seeds

FuturesStart ==
  /\ pc = "idle"
  /\ endpoint' = "futures"
  /\ today' \in Clocks
  /\ pc' = "liveQuote"
  /\ trace' = <<Invoke("fetchLiveCattleFutures")>>
  /\ UNCHANGED <<arg, nassKey, last, priceReport, stateData, fetches, liveCattle, response, component>>

LiveQuoteSettle ==
  /\ pc = "liveQuote"
  /\ \E resp \in QuoteResponses :
       \E seed \in QuoteSeeds(resp) :
         /\ liveCattle' = fetchLiveCattleFutures(resp, seed, today)
         /\ last' = Completed("fetchLiveCattleFutures", <<resp>>, Returned(liveCattle'))
  /\ pc' = "feederQuote"
  /\ trace' = trace \o <<Settle("fetchLiveCattleFutures"), Invoke("fetchFeederCattleFutures")>>
  /\ UNCHANGED <<endpoint, arg, nassKey, priceReport, stateData, fetches, today, response, component>>

FeederQuoteSettle ==
  /\ pc = "feederQuote"
  /\ \E resp \in QuoteResponses :
       \E seed \in QuoteSeeds(resp) :
         LET feederCattle == fetchFeederCattleFutures(resp, seed, today)
         IN /\ last' = Completed("fetchFeederCattleFutures", <<resp>>, Returned(feederCattle))
            /\ Send(FuturesResponse(liveCattle, feederCattle))
  /\ trace' = Append(trace, Settle("fetchFeederCattleFutures"))
  /\ UNCHANGED <<endpoint, arg, nassKey, priceReport, stateData, fetches, liveCattle, today, component>>

(* ---- an upstream that never answers ---- *)
\* the places where a handler is suspended on a request to an upstream
\* (without an API key fetchNASS sends none)
AwaitingUpstream ==
  /\ pc \in {"lmpr", "nassState", "nassNational", "cashPrimary", "cashSecondary",
             "regionPrimary", "regionSecondary", "fanout", "liveQuote", "feederQuote"}
  /\ pc \in {"nassState", "nassNational"} => nassKey

\* the upstream of the pending request never answers: fetch is called
\* without a signal and no timer is armed, so the await never resumes
UpstreamSilent ==
  /\ AwaitingUpstream
  /\ pc' = "stalled"
  /\ UNCHANGED <<endpoint, arg, nassKey, trace, last, priceReport, stateData, fetches,
                 liveCattle, today, response, component>>

Next ==
  \/ SlaughterStart \/ LMPRSettle \/ NASSStateSettle \/ NASSNationalSettle
  \/ CashStart \/ CashPrimarySettle \/ CashSecondarySettle
  \/ RegionStart \/ RegionPrimarySettle \/ RegionSecondarySettle
  \/ AuctionsStart \/ MarketStart \/ AuctionFetchSettle
  \/ FuturesStart \/ LiveQuoteSettle \/ FeederQuoteSettle
  \/ UpstreamSilent

Spec == Init /\ [][Next]_vars

(***************************************************************************)
(* One call of a categorical mapper: mapTrend, mapPriceType or             *)
(* normalizeCategory applied to an argument, and normalizeCategory applied *)
(* once more to what it returned (the comparison table maps the category   *)
(* of every sale each time it is rendered).  arg is the argument, last the *)
(* call that completed most recently.                                      *)
(***************************************************************************)
\* the texts upstream reports use for trends, purchase types and classes
MapperTexts ==
  {"", "N/A", "UNCH", "Unch", "unchanged", "Unchanged", "Steady", "STEADY",
   "steady to higher", "Steady to Lower", "Higher", "HIGHER", "higher", "Lower",
   "LOWER", "lower", "Up 2.00", "up", "Down 1.00", "DOWN", "Weak", "Firm",
   "1.00 higher to 2.00 lower", "lower to steady", "Light supply",
   "Negotiated Cash", "negotiated", "Formula Net", "FORMULA", "Forward Contract",
   "forward", "Negotiated Grid Net", "GRID", "Formula/Forward", "Forward Grid",
   "Grid Formula", "Steers", "Heifers", "Cow-Calf Pairs", "Slaughter Bulls",
   "Slaughter Cows", "Bulls", "Cows", "steer", "Feeder Steers", "HEIFERS",
   "Replacement Heifers", "Bred Cows", "Cow/Calf Pairs", "Breaker Cows",
   "Breaking Utility Cows", "Slaughter Cattle - Bulls", "Bull Calves",
   "Steer Calves", "Bred Heifers", "Mixed", "Calves", "Pairs", "Stock Cows",
   "Slaughter Heifers", "Cows w/ Calf at side", "Slaughter Cows and Bulls"}

\* the arguments tried: a text, null, undefined, the number 0 and a number
\* that is not 0
MapperInputs == {Str(t) : t \in MapperTexts} \cup {Null, Undef, Num(0), Num(5 * Scale)}

MapperInit ==
  /\ endpoint = "none"
  /\ arg \in MapperInputs
  /\ nassKey = FALSE
  /\ pc = "idle"
  /\ trace = <<>>
  /\ last = Completed("none", <<>>, Returned(<<>>))
  /\ priceReport = NullReport
  /\ stateData = NullBody
  /\ fetches = <<>>
  /\ liveCattle = <<>>
  /\ today = [year |-> 2026, month |-> 0]
  /\ response = <<>>
  /\ Unmounted

\* the call of mapper on input ends with result
MapperCall(mapper, input, result) ==
  /\ endpoint' = mapper
  /\ last' = Completed(mapper, <<input>>, result)
  /\ trace' = trace \o <<Invoke(mapper), Settle(mapper)>>
  /\ UNCHANGED <<arg, nassKey, priceReport, stateData, fetches, liveCattle, today, response, component>>

CallMapTrend ==
  /\ pc = "idle"
  /\ pc' = "done"
  /\ MapperCall("mapTrend", arg, IF LowerThrows(arg) THEN Thrown ELSE Returned(mapTrend(arg)))

CallMapPriceType ==
  /\ pc = "idle"
  /\ pc' = "done"
  /\ MapperCall("mapPriceType", arg,
                IF LowerThrows(arg) THEN Thrown ELSE Returned(mapPriceType(arg)))

\* cat.toLowerCase() raises when cat is not a text
CallNormalizeCategory ==
  /\ pc = "idle"
  /\ pc' = IF arg.t = "string" THEN "mapped" ELSE "done"
  /\ MapperCall("normalizeCategory", arg,
                IF arg.t = "string" THEN Returned(Str(normalizeCategory(arg.s))) ELSE Thrown)

\* the category that was returned is mapped again
CallNormalizeCategoryAgain ==
  /\ pc = "mapped"
  /\ pc' = "done"
  /\ MapperCall("normalizeCategory", last.result.value,
                Returned(Str(normalizeCategory(last.result.value.s))))

MapperNext ==
  \/ CallMapTrend \/ CallMapPriceType
  \/ CallNormalizeCategory \/ CallNormalizeCategoryAgain

MapperSpec == MapperInit /\ [][MapperNext]_vars

(***************************************************************************)
(* The slug utilities called on display names: toSlug, then toSlug again   *)
(* or a name lookup of the slug and toSlug of the name found.              *)
(***************************************************************************)
\* the display names and segments tried: every key and every name of the two
\* tables, names with "&", "and", digits, punctuation, capitals, doubled and
\* outer separators, and names whose slug is a name every object inherits
SlugNames ==
  DOMAIN REGION_MAP \cup DOMAIN MARKET_MAP
  \cup {REGION_MAP[k] : k \in DOMAIN REGION_MAP}
  \cup {MARKET_MAP[k] : k \in DOMAIN MARKET_MAP}
  \cup {"", "---", "&", "and", "A&B", "Huss & Sons", "Sand and Gravel", "Band-Aid",
        "  Fort  Pierre -- S.D. ", "O'Neill Livestock", "Burwell_Market #2",
        "Tri-State Livestock", "-South Dakota-", "5 Area Weekly", "Area 51",
        "and-and", "R&R and Co.", "NORTH PLATTE", "Constructor", "constructor",
        "toString", "Value Of", "west_point", "a--b"}

SlugInit ==
  /\ endpoint = "none"
  /\ arg \in {Str(name) : name \in SlugNames}
  /\ nassKey = FALSE
  /\ pc = "idle"
  /\ trace = <<>>
  /\ last = Completed("none", <<>>, Returned(<<>>))
  /\ priceReport = NullReport
  /\ stateData = NullBody
  /\ fetches = <<>>
  /\ liveCattle = <<>>
  /\ today = [year |-> 2026, month |-> 0]
  /\ response = <<>>
  /\ Unmounted

\* toSlug(name): name.toLowerCase() raises when name is not a text
ToSlugResult(name) ==
  IF name.t = "string" THEN Returned(Str(toSlug(name.s))) ELSE Thrown

CallToSlug ==
  /\ pc = "idle"
  /\ pc' = "slug"
  /\ MapperCall("toSlug", arg, ToSlugResult(arg))

\* the slug that was returned is given to toSlug again
CallToSlugAgain ==
  /\ pc = "slug"
  /\ pc' = "done"
  /\ MapperCall("toSlug", last.result.value, ToSlugResult(last.result.value))

\* the slug that was returned is looked up as a market
CallGetMarketName ==
  /\ pc = "slug"
  /\ pc' = "name"
  /\ MapperCall("getMarketName", last.result.value,
                Returned(getMarketName(last.result.value.s)))

\* the slug that was returned is looked up as a region
CallGetRegionName ==
  /\ pc = "slug"
  /\ pc' = "name"
  /\ MapperCall("getRegionName", last.result.value,
                Returned(getRegionName(last.result.value.s)))

\* what the lookup returned is given to toSlug
CallToSlugOfName ==
  /\ pc = "name"
  /\ pc' = "done"
  /\ MapperCall("toSlug", last.result.value, ToSlugResult(last.result.value))

SlugNext ==
  \/ CallToSlug \/ CallToSlugAgain
  \/ CallGetMarketName \/ CallGetRegionName
  \/ CallToSlugOfName

SlugSpec == SlugInit /\ [][SlugNext]_vars

(***************************************************************************)
(* The public text feed: fetchMarketNewsPublicFeed fetches a plain text    *)
(* report and hands it to parseUSDATextReport.  arg is unused, last the    *)
(* call that completed.                                                    *)
(***************************************************************************)
\* text.split("\n")
RECURSIVE SplitLines(_)
SplitLines(text) ==
  IF ~Includes(text, "\n") THEN <<text>>
  ELSE LET i == CHOOSE j \in 1..Len(text) :
                  SubSeq(text, j, j) = "\n" /\ ~Includes(SubSeq(text, 1, j - 1), "\n")
       IN <<SubSeq(text, 1, i - 1)>> \o SplitLines(SubSeq(text, i + 1, Len(text)))

\* length of the run of white space of s that starts at i
RECURSIVE SpaceRun(_, _)
SpaceRun(s, i) ==
  IF i <= Len(s) /\ IsSpace(SubSeq(s, i, i)) THEN 1 + SpaceRun(s, i + 1) ELSE 0

\* the parts of s from start on, the scan being at i
RECURSIVE SplitColumnsFrom(_, _, _)
SplitColumnsFrom(s, start, i) ==
  IF i > Len(s) THEN <<SubSeq(s, start, Len(s))>>
  ELSE LET r == SpaceRun(s, i)
       IN IF r >= 2
          THEN <<SubSeq(s, start, i - 1)>> \o SplitColumnsFrom(s, i + r, i + r)
          ELSE SplitColumnsFrom(s, start, i + 1)

\* line.split(/\s{2,}/)
SplitColumns(line) == SplitColumnsFrom(line, 1, 1)

\* the row pushed for the parts of a line
TextRow(parts) ==
  [category |-> Trim(parts[1]),
   headCount |-> NumOrZero(parseInt(Str(parts[2]))),
   price |-> NumOrZero(parseFloat(Str(parts[3])))]

\* line.includes("---") || line.includes("===")
IsDivider(line) == Includes(line, "---") \/ Includes(line, "===")

\* the loop over the lines
RECURSIVE ParseLines(_, _)
ParseLines(lines, inDataSection) ==
  IF lines = <<>> THEN <<>>
  ELSE LET line == Head(lines)
       IN IF IsDivider(line) THEN ParseLines(Tail(lines), TRUE)
          ELSE (IF inDataSection /\ Trim(line) # "" /\ Len(SplitColumns(line)) >= 3
                THEN <<TextRow(SplitColumns(line))>>
                ELSE <<>>)
               \o ParseLines(Tail(lines), inDataSection)

parseUSDATextReport(text) == ParseLines(SplitLines(text), FALSE)

\* what the feed returns: null, or the rows parsed
NullFeed == [isNull |-> TRUE, rows |-> <<>>]

FeedRows(rows) == [isNull |-> FALSE, rows |-> rows]

fetchMarketNewsPublicFeed(resp) ==
  IF resp.kind = "text" THEN FeedRows(parseUSDATextReport(resp.text)) ELSE NullFeed

\* the lines a report is made of
ReportLines ==
  <<"Steers  120  185.50", "---", "Heifers  95  172.25", "", "Total 215",
    "Bulls  ---  95.00", "   ", " Cows \t 40  88.5\tavg   good", "=====",
    "Steers 700-800  1,250   n/a\r">>

MaxLines == 3

RECURSIVE JoinLines(_)
JoinLines(lines) ==
  IF Len(lines) = 0 THEN ""
  ELSE IF Len(lines) = 1 THEN lines[1]
  ELSE lines[1] \o "\n" \o JoinLines(Tail(lines))

ReportTexts == {JoinLines(lines) : lines \in Lists(ReportLines, MaxLines)}

FeedResponses ==
  {[kind |-> "neterr", text |-> ""], [kind |-> "status", text |-> ""]}
  \cup {[kind |-> "text", text |-> t] : t \in ReportTexts}

FeedResults == [resp \in FeedResponses |-> fetchMarketNewsPublicFeed(resp)]

FeedStart ==
  /\ pc = "idle"
  /\ pc' = "feed"
  /\ endpoint' = "feed"
  /\ trace' = Append(trace, Invoke("fetchMarketNewsPublicFeed"))
  /\ UNCHANGED <<arg, nassKey, last, priceReport, stateData, fetches, liveCattle,
                 today, response, component>>

FeedSettle ==
  /\ pc = "feed"
  /\ \E resp \in FeedResponses :
       last' = Completed("fetchMarketNewsPublicFeed", <<resp>>, Returned(FeedResults[resp]))
  /\ pc' = "done"
  /\ trace' = Append(trace, Settle("fetchMarketNewsPublicFeed"))
  /\ UNCHANGED <<endpoint, arg, nassKey, priceReport, stateData, fetches, liveCattle,
                 today, response, component>>

FeedNext == FeedStart \/ FeedSettle

FeedSpec == Init /\ [][FeedNext]_vars

(***************************************************************************)
(* An adapter on a payload that is longer than the ceiling of its          *)
(* slice(0, n): one call of fetchNebraskaDirectSlaughter,                  *)
(* fetch5AreaWeeklyPrices, fetchNebraskaAuctions (for the default barn) or *)
(* fetchLMPRSlaughter on an upstream list of about ceiling records.        *)
(***************************************************************************)
\* the most records a payload has past the ceiling
MaxOver == 2

CapAdapters ==
  {"fetchNebraskaDirectSlaughter", "fetch5AreaWeeklyPrices", "fetchNebraskaAuctions",
   "fetchLMPRSlaughter"}

\* the n of slice(0, n) in each adapter
Ceiling ==
  [fetchNebraskaDirectSlaughter |-> CashCap, fetch5AreaWeeklyPrices |-> CashCap,
   fetchNebraskaAuctions |-> AuctionCap, fetchLMPRSlaughter |-> LMPRCap]

\* the records an adapter's source sends
PoolOf ==
  [fetchNebraskaDirectSlaughter |-> CashItems, fetch5AreaWeeklyPrices |-> CashItems,
   fetchNebraskaAuctions |-> AuctionItems, fetchLMPRSlaughter |-> LMPRItems]

\* what the adapter returns for the response of its source
AdapterResult(adapter, resp) ==
  CASE adapter = "fetchNebraskaDirectSlaughter" -> fetchNebraskaDirectSlaughter(resp)
    [] adapter = "fetch5AreaWeeklyPrices" -> fetch5AreaWeeklyPrices(resp)
    [] adapter = "fetchNebraskaAuctions" ->
         AuctionsFrom(AuctionBarns(<<>>), <<fetchUSDA(resp).value>>)
    [] adapter = "fetchLMPRSlaughter" -> fetchLMPRSlaughter(resp)

\* a list of n records: head up to the ceiling, tail past it
LongList(head, tail, cap, n) == [i \in 1..n |-> IF i <= cap THEN head ELSE tail]

LongCall(adapter) ==
  /\ pc = "idle"
  /\ pc' = "done"
  /\ endpoint' = "long"
  /\ \E shape \in {"array", "wrapped"}, over \in 0..MaxOver,
        head \in Range(PoolOf[adapter]), tail \in Range(PoolOf[adapter]) :
       LET cap == Ceiling[adapter]
           resp == Response("json", Body(shape, LongList(head, tail, cap, cap + over)))
       IN last' = Completed(adapter, <<resp>>, AdapterResult(adapter, resp))
  /\ trace' = trace \o <<Invoke(adapter), Settle(adapter)>>
  /\ UNCHANGED <<arg, nassKey, priceReport, stateData, fetches, liveCattle, today, response, component>>

LongNext == \E adapter \in CapAdapters : LongCall(adapter)

LongSpec == Init /\ [][LongNext]_vars

(***************************************************************************)
(* The AuctionSales component (components/sections/AuctionSales.tsx): the  *)
(* effect on mount, the barn selector, the refresh button, the view toggle *)
(* and the arrival of a response of GET /api/auctions.  Every fetchData    *)
(* call is kept in requests, with the answer it got once it has settled.   *)
(***************************************************************************)
\* the most fetchData calls in one run
MaxRequests == 3

\* the barns of the selector that are toggled
SelectableSlugs == {"1860", "1836"}

\* slugs.join(",")
RECURSIVE JoinComma(_)
JoinComma(slugs) ==
  IF Len(slugs) = 0 THEN ""
  ELSE IF Len(slugs) = 1 THEN slugs[1]
  ELSE slugs[1] \o "," \o JoinComma(Tail(slugs))

\* the query string fetchData sends: none for an empty selection
BarnsParam(slugs) == IF Len(slugs) > 0 THEN Str(JoinComma(slugs)) ELSE Null

\* an upstream report with one valid sale
LiveBody == Body("array", <<AuctionItems[2]>>)

\* what the auctions route can answer for the selection: live reports, demo
\* data after an empty result, demo data after an exception
AuctionsAnswers(slugs) ==
  LET barns == AuctionBarns(RouteSlugs(BarnsParam(slugs)))
  IN {AuctionsResponse(Thrown), AuctionsResponse(Returned(<<>>)),
      AuctionsResponse(AuctionsFrom(barns, [i \in 1..Len(barns) |-> LiveBody]))}

\* fetchData(slugs) up to its first await
FetchDataStart(slugs) ==
  /\ loading' = TRUE
  /\ error' = Null
  /\ requests' = Append(requests, [slugs |-> slugs, settled |-> FALSE, answer |-> Uncaught,
                                   at |-> 0])

\* the rest of fetchData once the response of request i is there: a status
\* that is not ok raises inside the try block
FetchDataEnd(i, answer) ==
  /\ requests' = [requests EXCEPT ![i] = [slugs |-> requests[i].slugs, settled |-> TRUE,
                                          answer |-> answer,
                                          at |-> SettledCount(requests) + 1]]
  /\ IF answer.status # 200
     THEN /\ error' = Str("Failed to fetch auction data")
          /\ UNCHANGED reports
     ELSE /\ error' = IF Truthy(answer.error) /\ Includes(answer.error.s, "demo")
                      THEN answer.error ELSE error
          /\ reports' = answer.data
  /\ loading' = FALSE

\* useEffect(() => fetchData(selectedSlugs)) when the component mounts
Mount ==
  /\ requests = <<>>
  /\ FetchDataStart(selectedSlugs)
  /\ UNCHANGED <<reports, selectedSlugs, view, server>>

\* BarnSelector: toggle(slug) and clearAll
Toggle(selected, slug) ==
  IF SeqIncludes(selected, slug)
  THEN LET Other(s) == s # slug IN SelectSeq(selected, Other)
  ELSE Append(selected, slug)

\* handleBarnChange(slugs), and the effect that follows the change of
\* selectedSlugs
HandleBarnChange ==
  /\ Len(requests) \in 1..(MaxRequests - 1)
  /\ \E slugs \in {Toggle(selectedSlugs, slug) : slug \in SelectableSlugs} \cup {<<>>} :
       /\ selectedSlugs' = slugs
       /\ view' = IF Len(slugs) >= 2 /\ view = "barns" THEN "compare" ELSE view
       /\ FetchDataStart(slugs)
  /\ UNCHANGED <<reports, server>>

HandleRefresh ==
  /\ Len(requests) \in 1..(MaxRequests - 1)
  /\ FetchDataStart(selectedSlugs)
  /\ UNCHANGED <<reports, selectedSlugs, view, server>>

\* the buttons By Barn and Compare
SetView ==
  /\ Len(requests) > 0
  /\ \E v \in {"barns", "compare"} : v # view /\ view' = v
  /\ UNCHANGED <<reports, selectedSlugs, loading, error, requests, server>>

ResponseArrives ==
  /\ \E i \in 1..Len(requests) :
       /\ ~requests[i].settled
       /\ \E answer \in AuctionsAnswers(requests[i].slugs) \cup {Uncaught} :
            FetchDataEnd(i, answer)
  /\ UNCHANGED <<selectedSlugs, view, server>>

\* the branch of the conditional rendering that is taken
Rendered ==
  IF loading THEN "skeleton"
  ELSE IF Truthy(error) /\ Len(reports) = 0 THEN "error"
  ELSE IF Len(selectedSlugs) = 0 THEN "select"
  ELSE IF Len(reports) = 0 THEN "none"
  ELSE IF view = "compare" THEN "compare"
  ELSE "barns"

\* records are on the screen
RecordsShown == Rendered \in {"compare", "barns"}

\* the error text is on the screen: ErrorMessage, or the strip above the
\* reports of the by-barn view
MessageShown == Rendered = "error" \/ (Rendered = "barns" /\ Truthy(error))

ComponentNext ==
  \/ Mount \/ HandleBarnChange \/ HandleRefresh \/ SetView \/ ResponseArrives

ComponentSpec == Init /\ [][ComponentNext]_vars

(***************************************************************************)
(* Properties of a request.                                                *)
(***************************************************************************)
Answer == response[1]

Invocations(adapter) ==
  Cardinality({i \in 1..Len(trace) : trace[i] = Invoke(adapter)})

USDAAdapters ==
  {"fetchLMPRSlaughter", "fetchCattleSlaughter", "fetchNebraskaDirectSlaughter",
   "fetch5AreaWeeklyPrices", "fetchNebraskaAuctions"}

Adapters == USDAAdapters \cup {"fetchLiveCattleFutures", "fetchFeederCattleFutures"}

CashAdapters == {"fetchNebraskaDirectSlaughter", "fetch5AreaWeeklyPrices"}

\* a list result with records, a report result with prices
HasRecords(r) == ~r.thrown /\ Len(r.value) > 0

HasPrices(r) == ~r.thrown /\ ~r.value.isNull /\ Len(r.value.prices) > 0

\* the most recent adapter call returned nothing: an empty list, a null
\* report or a report without prices
ReturnedNothing ==
  /\ ~last.result.thrown
  /\ IF last.adapter \in CashAdapters
     THEN last.result.value.isNull \/ Len(last.result.value.prices) = 0
     ELSE Len(last.result.value) = 0

\* the request is over and the last adapter of its chain returned nothing
ChainExhausted ==
  /\ pc = "done"
  /\ ReturnedNothing
  /\ \/ endpoint = "slaughter" /\ last.adapter = "fetchCattleSlaughter"
     \/ endpoint = "cash" /\ last.adapter = "fetch5AreaWeeklyPrices"
     \/ endpoint = "auctions" /\ last.adapter = "fetchNebraskaAuctions"

\* the response data is the route's static demo set
IsDemoSet(data) ==
  CASE endpoint = "slaughter" -> \E seed \in Seeds : data = getDemoSlaughterData(seed)
    [] endpoint = "cash" -> data = getDemoCashPriceData
    [] endpoint = "auctions" -> data = getDemoAuctionData
    [] OTHER -> FALSE

\* C1: on the slaughter, cash-price and auction endpoints, when every adapter
\* of the chain has returned an empty or null result, the response carries
\* the static demo data set together with a non-null error string.
C1_DemoWithError ==
  ChainExhausted => IsDemoSet(Answer.data) /\ Answer.from = "demo" /\ Answer.error # Null

Primary == [slaughter |-> "fetchLMPRSlaughter", cash |-> "fetchNebraskaDirectSlaughter"]

Secondary == [slaughter |-> "fetchCattleSlaughter", cash |-> "fetch5AreaWeeklyPrices"]

\* the result r of an adapter of the chain of this endpoint is non-empty
NonEmpty(r) == IF endpoint = "slaughter" THEN HasRecords(r) ELSE HasPrices(r)

\* C2: in the slaughter chain and in the cash chain the first non-empty
\* result wins.  A non-empty primary result is the response data, with a
\* null error, and the secondary is never invoked; the secondary is invoked
\* only after the primary has settled with a null or empty result (a report
\* without prices included), and its non-empty result is then the response
\* data, with a null error.
C2_FirstNonEmptyWins ==
  endpoint \in {"slaughter", "cash"} =>
    LET P == Primary[endpoint]
        S == Secondary[endpoint]
    IN /\ Invocations(S) > 0 =>
            /\ Len(trace) >= 3
            /\ SubSeq(trace, 1, 3) = <<Invoke(P), Settle(P), Invoke(S)>>
       /\ pc \in {"nassState", "nassNational", "cashSecondary"} =>
            last.adapter = P /\ ~last.result.thrown /\ ~NonEmpty(last.result)
       /\ pc = "done" /\ last.adapter = P /\ ~last.result.thrown =>
            /\ NonEmpty(last.result)
            /\ Answer.data = last.result.value
            /\ Answer.error = Null
            /\ Invocations(S) = 0
       /\ pc = "done" /\ last.adapter = S /\ NonEmpty(last.result) =>
            /\ Answer.data = last.result.value
            /\ Answer.error = Null

\* the secondary adapter of a chain answered with records after the primary
\* had returned nothing, and its records are the response
C2_Witness ==
  /\ pc = "done"
  /\ endpoint = "cash"
  /\ last.adapter = "fetch5AreaWeeklyPrices"
  /\ HasPrices(last.result)
  /\ Answer.from = "adapter"

\* the response data is not null and not empty
HasContent(data) ==
  CASE endpoint = "slaughter" -> Len(data) > 0
    [] endpoint \in {"cash", "cashRegion"} -> ~data.isNull /\ Len(data.prices) > 0
    [] endpoint = "auctions" -> Len(data) > 0
    [] endpoint = "auctionMarket" -> Len(data.sales) > 0
    [] endpoint = "futures" -> Len(data.liveCattle) > 0 /\ Len(data.feederCattle) > 0

\* C3: no request fails outright.  On all six endpoints, whatever each
\* adapter did (records, an empty result, null, an exception), the request
\* ends with one successful response whose data is neither null nor empty,
\* and no exception leaves the handler.
C3_NeverFails ==
  pc = "done" =>
    /\ Len(response) = 1
    /\ Answer.status = 200
    /\ Answer.from # "none"
    /\ HasContent(Answer.data)

\* an adapter raised and the request was still answered with data
C3_Witness ==
  /\ pc = "done"
  /\ endpoint = "cashRegion"
  /\ arg = Str("south-dakota")
  /\ last.result.thrown
  /\ Answer.status = 200
  /\ Len(Answer.data.prices) > 0

\* C4: within one request each adapter is invoked at most once, and the
\* request ends in exactly one of two ways: a response with adapter data or
\* a response with demo data.
C4_OnceAndOneOutcome ==
  /\ \A a \in Adapters : Invocations(a) <= 1
  /\ Len(response) <= 1
  /\ (pc = "done") <=> (Len(response) = 1)
  /\ pc = "done" => Answer.from \in {"adapter", "demo"}

\* both adapters of a chain were invoked, once each, and the request ended
\* with demo data
C4_Witness ==
  /\ pc = "done"
  /\ endpoint = "slaughter"
  /\ Invocations("fetchLMPRSlaughter") = 1
  /\ Invocations("fetchCattleSlaughter") = 1
  /\ Answer.from = "demo"
RegionSlugOf(p) == IF p.region.t = "string" THEN toSlug(p.region.s) ELSE ""

Failure(resp) ==
  \/ resp.kind \in {"neterr", "status", "badjson"}
  \/ resp.body.shape = "null"
  \/ resp.body.shape \in {"object", "array"} /\ Len(resp.body.items) = 0

\* C6: each USDA adapter answers an upstream failure (network error,
\* non-2xx status, malformed JSON, a body that is null, {} or []) with its
\* empty result, null for the two cash adapters and the empty list for the
\* others, and never raises.
C6_FailureGivesEmpty ==
  /\ last.adapter \in CashAdapters /\ Failure(last.resps[1]) =>
       ~last.result.thrown /\ last.result.value.isNull
  /\ last.adapter = "fetchLMPRSlaughter" /\ Failure(last.resps[1]) =>
       ~last.result.thrown /\ last.result.value = <<>>
  /\ last.adapter = "fetchCattleSlaughter"
       /\ (\A i \in 1..Len(last.resps) : Failure(last.resps[i])) =>
       ~last.result.thrown /\ last.result.value = <<>>
  /\ last.adapter = "fetchNebraskaAuctions"
       /\ (\A i \in 1..Len(fetches) :
             fetches[i].failed \/ fetches[i].rejected
             \/ Failure(Response("json", fetches[i].data))) =>
       ~last.result.thrown /\ last.result.value = <<>>

\* an adapter met a network error and returned its empty result
C6_Witness ==
  /\ last.adapter = "fetchNebraskaDirectSlaughter"
  /\ last.resps[1].kind = "neterr"
  /\ ~last.result.thrown
  /\ last.result.value.isNull

\* C7: a body of the expected outer shape whose elements are not (a list
\* element that is null or not an object, a NASS Value that is not a
\* string) never makes a USDA adapter raise.
C7_MismatchNeverRaises ==
  last.adapter \in USDAAdapters => ~last.result.thrown

\* the reports of an auction result, the prices of a cash result
SalesOk(report) ==
  /\ Len(report.sales) > 0
  /\ \A i \in 1..Len(report.sales) : report.sales[i].avgPrice > 0

PricesOk(report) ==
  \A i \in 1..Len(report.prices) : report.prices[i].weightedAvgPrice > 0

\* C8: the adapters filter what they return: every cash price has a
\* weighted average price above zero, every auction sale an average price
\* above zero, and no auction report has zero sales; the same holds of the
\* data of every auction and cash response.
C8_FilterInvariant ==
  /\ last.adapter \in CashAdapters /\ ~last.result.thrown /\ ~last.result.value.isNull =>
       PricesOk(last.result.value)
  /\ last.adapter = "fetchNebraskaAuctions" /\ ~last.result.thrown =>
       \A i \in 1..Len(last.result.value) : SalesOk(last.result.value[i])
  /\ pc = "done" /\ endpoint \in {"cash", "cashRegion"} => PricesOk(Answer.data)
  /\ pc = "done" /\ endpoint = "auctions" =>
       \A i \in 1..Len(Answer.data) : SalesOk(Answer.data[i])
  /\ pc = "done" /\ endpoint = "auctionMarket" => SalesOk(Answer.data)

\* a record is an auction record whose price is not above zero
BadPrice(item) ==
  /\ ~PropThrows(item)
  /\ LET price == parseFloat(OrJS4(Get(item, "wtd_avg"), Get(item, "avg_price"),
                                   Get(item, "weighted_average"), Str("0")))
     IN price.t # "number" \/ price.n <= 0

\* a market answered with a record whose price is not above zero next to
\* one that is valid, and the adapter reported the market without it
C8_Witness ==
  /\ last.adapter = "fetchNebraskaAuctions"
  /\ ~last.result.thrown
  /\ Len(last.result.value) = 1
  /\ \E i \in 1..Len(fetches) :
       /\ Len(fetches[i].data.items) = 2
       /\ BadPrice(fetches[i].data.items[1])
       /\ Len(last.result.value[1].sales) = 1

RECURSIVE HeadsOf(_)
HeadsOf(sales) == IF Len(sales) = 0 THEN 0 ELSE sales[1].headCount + HeadsOf(Tail(sales))

\* C9: in every auction report of a response, live or demo, totalHeadCount
\* is the sum of the headCount of its sales.
C9_TotalIsSum ==
  /\ pc = "done" /\ endpoint = "auctions" =>
       \A i \in 1..Len(Answer.data) :
         Answer.data[i].totalHeadCount = HeadsOf(Answer.data[i].sales)
  /\ pc = "done" /\ endpoint = "auctionMarket" =>
       Answer.data.totalHeadCount = HeadsOf(Answer.data.sales)

\* market i of the fan-out answered with a record that makes a valid sale
HasValidSale(i) ==
  /\ ~fetches[i].failed
  /\ \E k \in 1..Len(Unwrap(fetches[i].data)) :
       LET item == Unwrap(fetches[i].data)[k]
       IN ~PropThrows(item) /\ ~BadPrice(item)

\* C10: the auction fan-out succeeds in part.  A market whose request
\* fails or whose answer has no valid sale is left out, every other market
\* is reported, and the call does not raise.
C10_PartialSuccess ==
  last.adapter = "fetchNebraskaAuctions" /\ Len(fetches) > 0 =>
    /\ ~last.result.thrown
    /\ \A i \in 1..Len(fetches) :
         HasValidSale(i) <=>
           \E j \in 1..Len(last.result.value) :
             last.result.value[j].marketName = fetches[i].barn.name

\* the slugs the request hands to fetchNebraskaAuctions
RequestSlugs == IF endpoint = "auctions" THEN RouteSlugs(arg) ELSE <<>>

\* seq without its i-th element
Drop(seq, i) == SubSeq(seq, 1, i - 1) \o SubSeq(seq, i + 1, Len(seq))

FetchBarns == [i \in 1..Len(fetches) |-> fetches[i].barn]

FetchDatas == [i \in 1..Len(fetches) |-> fetches[i].data]

\* C11: fetchNebraskaAuctions joins all its branches.  Every per-market
\* request is in flight before the first await; the result is built, and
\* the route answers, only when all of them have ended; a branch whose
\* request failed takes nothing from the result, which is what the other
\* branches alone would give; and the result is the list of reports in the
\* order of the requested markets whatever the order in which the branches
\* ended.
C11_JoinAll ==
  endpoint \in {"auctions", "auctionMarket"} =>
    /\ FetchBarns = AuctionBarns(RequestSlugs)
    /\ pc = "fanout" =>
         /\ ~AllSettled(fetches)
         /\ last.adapter # "fetchNebraskaAuctions"
         /\ response = <<>>
    /\ last.adapter = "fetchNebraskaAuctions" =>
         /\ AllSettled(fetches)
         /\ \A i \in 1..Len(fetches) :
              fetches[i].failed =>
                last.result = AuctionsFrom(Drop(FetchBarns, i), Drop(FetchDatas, i))
         /\ last.result = AuctionsFrom(FetchBarns, FetchDatas)

\* two markets were requested, the second answered first, the first then
\* failed, and the report of the second is the result
C11_Witness ==
  /\ last.adapter = "fetchNebraskaAuctions"
  /\ Len(fetches) = 2
  /\ fetches[2].at = 1
  /\ fetches[1].failed
  /\ ~last.result.thrown
  /\ Len(last.result.value) = 1
  /\ last.result.value[1].marketName = fetches[2].barn.name

\* C12: every outbound call has a bounded timeout.  When the upstream of
\* the pending call never answers, the handler is not stuck: a step that
\* treats the call as failed is still to come, so that the chain proceeds
\* and the request is answered.
C12_BoundedWait == pc = "stalled" => ENABLED Next

\* C13: in the futures domain, whenever the live cattle or the feeder
\* cattle contracts of the response are those of the static mock provider,
\* the response carries a non-null error string; the error is null only
\* when both lists derive from an upstream quote.
C13_MockCarriesError ==
  /\ pc = "done"
  /\ endpoint = "futures"
  /\ \/ Answer.data.liveCattle = getMockLiveCattleData
     \/ Answer.data.feederCattle = getMockFeederCattleData
  => Answer.error # Null

\* the contracts of a list that are estimates: all but the first of a list
\* that was built from a quote
Synthesized(contracts, mock) ==
  IF contracts = mock THEN {} ELSE {contracts[i] : i \in 2..Len(contracts)}

\* the contracts whose values came from the quote source: the front month
\* of every list the two adapters build from a quote, at every clock reading
GenuineContracts ==
  {fetchLiveCattleFutures(resp, 0, now)[1] :
     resp \in {r \in QuoteResponses : ~fetchYahooQuote(r).isNull}, now \in Clocks}
  \cup {fetchFeederCattleFutures(resp, 0, now)[1] :
          resp \in {r \in QuoteResponses : ~fetchYahooQuote(r).isNull}, now \in Clocks}

\* the fields of FuturesContract the adapters fill in
ContractFields ==
  {"symbol", "name", "contractMonth", "lastPrice", "change", "changePercent",
   "open", "high", "low", "volume", "lastUpdated"}

\* C14: in the output of fetchFuturesData some field of the contract record
\* tells every contract estimated from the front-month quote from the
\* contracts whose values came from the quote source: its value in an
\* estimated contract is never its value in a quoted one.
C14_Distinguishable ==
  pc = "done" /\ endpoint = "futures" =>
    \E f \in ContractFields :
      \A c \in Synthesized(Answer.data.liveCattle, getMockLiveCattleData)
                \cup Synthesized(Answer.data.feederCattle, getMockFeederCattleData) :
        \A g \in GenuineContracts : c[f] # g[f]

\* the barns query parameter is absent or holds only empty entries
NoBarnsAsked(barnsParam) ==
  \/ barnsParam = Null
  \/ /\ barnsParam.t = "string"
     /\ \A i \in 1..Len(barnsParam.s) :
          SubSeq(barnsParam.s, i, i) = "," \/ IsSpace(SubSeq(barnsParam.s, i, i))

\* C15: called without slugs (undefined or an empty list),
\* fetchNebraskaAuctions issues exactly one upstream request, for the
\* Nebraska Weekly Summary report 1860; the auctions endpoint passes no
\* slugs when the barns parameter is absent or holds only empty entries.
C15_DefaultBarn ==
  /\ endpoint = "auctions" /\ NoBarnsAsked(arg) => RequestSlugs = <<>>
  /\ endpoint \in {"auctions", "auctionMarket"} /\ RequestSlugs = <<>> =>
       /\ Len(fetches) = 1
       /\ fetches[1].barn.slug = "1860"
       /\ fetches[1].barn.name = "Nebraska Weekly Summary"

\* the barns parameter held only empty entries and the one request, for
\* report 1860, was made and answered
C15_Witness ==
  /\ endpoint = "auctions"
  /\ arg = Str(" , ")
  /\ last.adapter = "fetchNebraskaAuctions"
  /\ Len(fetches) = 1
  /\ fetches[1].barn.slug = "1860"
  /\ fetches[1].settled

\* a text with a thousands separator
HasComma(v) == v.t = "string" /\ Includes(v.s, ",")

\* the number such a text stands for: the commas removed, then parsed
WithoutCommasFloat(v) == NumOrZero(parseFloat(Str(StripCommas(v.s))))

WithoutCommasInt(v) == NumOrZero(parseInt(Str(StripCommas(v.s))))

\* the list an upstream body holds is one record, an object
OneRecord(body) ==
  /\ body.shape \in {"array", "wrapped"}
  /\ Len(body.items) = 1
  /\ ~PropThrows(body.items[1])

\* the low price and the head count of a normalized record are those of
\* the upstream record with the commas removed
CommasStripped(item, low, headCount) ==
  /\ HasComma(Get(item, "price_low")) => low = WithoutCommasFloat(Get(item, "price_low"))
  /\ HasComma(Get(item, "head_count")) => headCount = WithoutCommasInt(Get(item, "head_count"))

\* C16: a numeric field whose selected candidate is a text with thousands
\* separators is parsed with the commas stripped.  In the cash and auction
\* adapters a record with price_low "1,234.50" gives priceRange.low =
\* 1234.50, and head_count "1,250" gives headCount = 1250.
C16_CommasStripped ==
  /\ last.adapter \in CashAdapters /\ last.resps[1].kind = "json"
       /\ OneRecord(last.resps[1].body) /\ HasPrices(last.result) =>
       LET p == last.result.value.prices[1]
       IN CommasStripped(last.resps[1].body.items[1], p.priceRange.low, p.headCount)
  /\ last.adapter = "fetchNebraskaAuctions" /\ ~last.result.thrown =>
       \A i \in 1..Len(fetches) :
         OneRecord(fetches[i].data) =>
           \A j \in 1..Len(last.result.value) :
             last.result.value[j].marketName = fetches[i].barn.name =>
               LET sale == last.result.value[j].sales[1]
               IN CommasStripped(fetches[i].data.items[1], sale.priceRange.low, sale.headCount)

\* a candidate value that is present, not empty and not the number 0, and
\* that parses to a number
YieldsNumber(v, parse(_)) ==
  /\ v.t \in {"string", "number"}
  /\ v # Str("")
  /\ v # Num(0)
  /\ parse(v).t = "number"

\* the parse of the first candidate of names that yields a number, 0 when
\* none does
Coalesce(item, names, parse(_)) ==
  LET ok == {i \in 1..Len(names) : YieldsNumber(Get(item, names[i]), parse)}
      first == CHOOSE i \in ok : \A j \in ok : i <= j
  IN IF ok = {} THEN 0 ELSE parse(Get(item, names[first])).n

\* p is the record item normalizes to when every numeric field is coalesced
\* from the candidates c
Coalesced(item, c, p) ==
  /\ p.weightedAvgPrice = Coalesce(item, c.weightedAvgPrice, parseFloat)
  /\ p.headCount = Coalesce(item, c.headCount, parseInt)
  /\ p.priceRange.low = Coalesce(item, c.low, parseFloat)
  /\ p.priceRange.high = Coalesce(item, c.high, parseFloat)
  /\ p.avgWeight = Coalesce(item, c.avgWeight, parseFloat)

\* C17: field coalescing in the cash adapters.  For each numeric field the
\* candidates are tried in their listed order and the result is the parse
\* of the first candidate that is present, non-empty and parses; 0 is the
\* result only when no candidate yields a number.  A candidate holding the
\* number 0 or a text that does not parse does not hide a later candidate
\* that holds a number.  (A record whose weighted average price coalesces
\* to a value above zero is the one the adapter returns.)
C17_Coalescing ==
  last.adapter \in CashAdapters /\ last.resps[1].kind = "json"
    /\ OneRecord(last.resps[1].body) /\ ~last.result.thrown =>
    LET item == last.resps[1].body.items[1]
        c == IF last.adapter = "fetchNebraskaDirectSlaughter"
             THEN NebraskaCandidates ELSE FiveAreaCandidates
    IN Coalesce(item, c.weightedAvgPrice, parseFloat) > 0 =>
         /\ HasPrices(last.result)
         /\ Coalesced(item, c, last.result.value.prices[1])

\* the argument of a mapper is a text or is absent
TextOrAbsent(v) == v.t = "string" \/ v = Null \/ v = Undef

\* the text of such an argument in lower case, "" when it is absent
LowerText(v) == IF v.t = "string" THEN toLowerCase(v.s) ELSE ""

\* C18: mapTrend maps the empty text and unrecognized text to undefined,
\* not to steady, and the abbreviation UNCH to steady; matching ignores
\* case and looks for higher or up, then lower or down, then steady or
\* unchanged.
C18_TrendMapping ==
  endpoint = "mapTrend" /\ pc = "done" /\ TextOrAbsent(arg) =>
    LET lower == LowerText(arg)
    IN /\ ~last.result.thrown
       /\ last.result.value =
            IF Includes(lower, "higher") \/ Includes(lower, "up") THEN Str("higher")
            ELSE IF Includes(lower, "lower") \/ Includes(lower, "down") THEN Str("lower")
            ELSE IF Includes(lower, "steady") \/ Includes(lower, "unchanged")
                    \/ Includes(lower, "unch")
                 THEN Str("steady")
            ELSE Undef

PriceTypes == {"negotiated", "formula", "forward", "negotiated_grid"}

\* C19: mapPriceType is total and ignores case.  On every text, on null
\* and on undefined it returns one of the four price types: formula for a
\* text containing "formula", otherwise forward for one containing
\* "forward", otherwise negotiated_grid for one containing "grid", and
\* negotiated for everything else, the empty text, null and undefined
\* included.
C19_PriceTypeMapping ==
  endpoint = "mapPriceType" /\ pc = "done" /\ TextOrAbsent(arg) =>
    LET lower == LowerText(arg)
    IN /\ ~last.result.thrown
       /\ last.result.value \in PriceTypes
       /\ last.result.value =
            IF Includes(lower, "formula") THEN "formula"
            ELSE IF Includes(lower, "forward") THEN "forward"
            ELSE IF Includes(lower, "grid") THEN "negotiated_grid"
            ELSE "negotiated"

\* a text in capitals was mapped to the price type its lower-case
\* form names
C19_Witness ==
  /\ endpoint = "mapPriceType"
  /\ pc = "done"
  /\ arg = Str("GRID")
  /\ last.result = Returned("negotiated_grid")

NormalizedCategories ==
  {"Steers", "Heifers", "Cow-Calf Pairs", "Slaughter Bulls", "Slaughter Cows",
   "Bulls", "Cows"}

\* C20: normalizeCategory is idempotent.  Mapping a category that was
\* already mapped returns it unchanged, and each of Steers, Heifers,
\* Cow-Calf Pairs, Slaughter Bulls, Slaughter Cows, Bulls and Cows maps to
\* itself.
C20_Idempotent ==
  endpoint = "normalizeCategory" /\ ~last.result.thrown =>
    /\ pc = "done" => last.result.value = last.resps[1]
    /\ arg.s \in NormalizedCategories /\ last.resps[1] = arg => last.result.value = arg

\* a class that is not a normalized category was mapped to one, and
\* mapping that again returned it
C20_Witness ==
  /\ endpoint = "normalizeCategory"
  /\ pc = "done"
  /\ arg = Str("Breaking Utility Cows")
  /\ last.resps[1] = Str("Slaughter Cows")
  /\ last.result.value = Str("Slaughter Cows")

\* the lines of the text the feed answered with
FedLines == SplitLines(last.resps[1].text)

\* the rows the lines from index i on give, every line that splits into at
\* least 3 columns giving one
RECURSIVE RowsOfLines(_, _)
RowsOfLines(lines, i) ==
  IF i > Len(lines) THEN <<>>
  ELSE (IF Trim(lines[i]) # "" /\ Len(SplitColumns(lines[i])) >= 3
        THEN <<TextRow(SplitColumns(lines[i]))>>
        ELSE <<>>)
       \o RowsOfLines(lines, i + 1)

\* C21: parseUSDATextReport emits no row for a line before the first
\* divider line; after it, every line that is not blank and splits on runs
\* of two or more white space characters into at least 3 columns yields
\* exactly one row (category column 1, headCount the integer of column 2,
\* price the decimal of column 3), in input order, and a line with fewer
\* than 3 columns yields none.
C21_DataRows ==
  pc = "done" /\ endpoint = "feed" /\ last.resps[1].kind = "text" =>
    LET lines == FedLines
        rows == last.result.value.rows
    IN IF \A i \in 1..Len(lines) : ~IsDivider(lines[i]) THEN rows = <<>>
       ELSE LET first == CHOOSE i \in 1..Len(lines) :
                           IsDivider(lines[i]) /\ \A j \in 1..(i - 1) : ~IsDivider(lines[j])
            IN rows = RowsOfLines(lines, first + 1)

\* the number of records in what an adapter returned
RECURSIVE SalesIn(_)
SalesIn(list) ==
  IF Len(list) = 0 THEN 0 ELSE Len(list[1].sales) + SalesIn(Tail(list))

Emitted(adapter, r) ==
  IF r.thrown THEN 0
  ELSE IF adapter \in CashAdapters THEN Len(r.value.prices)
  ELSE IF adapter = "fetchNebraskaAuctions" THEN SalesIn(r.value)
  ELSE Len(r.value)

\* the response cut after its first n records
CutAfter(resp, n) ==
  Response(resp.kind,
           Body(resp.body.shape,
                SubSeq(resp.body.items, 1,
                       IF Len(resp.body.items) < n THEN Len(resp.body.items) ELSE n)))

\* C22: each adapter processes only a prefix of the upstream list, of a
\* length that is constant per adapter (50 records in both cash adapters,
\* 100 per market in the auction adapter, 8 in the LMPR adapter).  It never
\* emits more records than that, and the records past it never change what
\* it returns.
C22_Ceiling ==
  pc = "done" /\ endpoint = "long" =>
    LET adapter == last.adapter
        resp == last.resps[1]
    IN /\ Ceiling[adapter] = (CASE adapter \in CashAdapters -> 50
                                [] adapter = "fetchNebraskaAuctions" -> 100
                                [] OTHER -> 8)
       /\ Emitted(adapter, last.result) <= Ceiling[adapter]
       /\ last.result = AdapterResult(adapter, CutAfter(resp, Ceiling[adapter]))

\* a cash adapter was handed two valid records past its ceiling of 50 and
\* emitted 50
C22_Witness ==
  /\ pc = "done"
  /\ endpoint = "long"
  /\ last.adapter = "fetchNebraskaDirectSlaughter"
  /\ Len(last.resps[1].body.items) = CashCap + 2
  /\ last.resps[1].body.items[CashCap + 1] = CashItems[1]
  /\ last.resps[1].body.items[1] = CashItems[2]
  /\ Emitted(last.adapter, last.result) = CashCap

\* C23: every CashPrice in the data the per-region cash-price endpoint
\* returns has a region that equals, ignoring case, the display name of the
\* region slug asked for, on the live path and on the demo path, also for
\* a slug that the demo table does not have.
C23_RegionOfRequest ==
  pc = "done" /\ endpoint = "cashRegion" =>
    \A i \in 1..Len(Answer.data.prices) :
      LET p == Answer.data.prices[i]
      IN /\ p.region.t = "string"
         /\ toLowerCase(p.region.s) = toLowerCase(getRegionName(arg.s).s)

\* C24: the auction-by-market endpoint resolves the market asked for to
\* its upstream report.  For a market slug of MARKET_MAP, when the upstream
\* answers with a report that has at least one valid sale, the response is
\* that market's live report and not demo data.
C24_MarketResolved ==
  /\ pc = "done"
  /\ endpoint = "auctionMarket"
  /\ arg.s \in DOMAIN MARKET_MAP
  /\ \A i \in 1..Len(fetches) : HasValidSale(i)
  /\ ~last.result.thrown
  => /\ Answer.from = "adapter"
     /\ Answer.data.marketName = MARKET_MAP[arg.s]

\* pct is (current - previous) / previous * 100 when previous > 0, and 0
\* otherwise; a percent change is kept as the fraction it is 100 times of,
\* its terms in heads or in thousandths of a head
IsPercentChange(pct, current, previous) ==
  /\ pct.den # 0
  /\ IF previous > 0
     THEN \/ pct.num = 0 /\ current = previous
          \/ \E unit \in {1, Scale} :
               pct.num * unit = current - previous /\ pct.den * unit = previous
     ELSE pct.num = 0

\* the percent changes of a SlaughterWeek are those of its counts
DerivedFields(week) ==
  /\ IsPercentChange(week.percentChangeWeek, week.cattleSlaughter, week.previousWeek)
  /\ IsPercentChange(week.percentChangeYear, week.cattleSlaughter, week.previousYear)

\* the count a field holds: 0 when it is missing or cannot be parsed
CountOf(v) == IF parseInt(v).t = "number" THEN parseInt(v).n ELSE 0

\* previous is the count given upstream, or current when that count is
\* missing, zero or unparsable, in which case the percent change is 0
ReplacedByCurrent(given, previous, current, pct) ==
  IF given # 0 THEN previous = given
  ELSE previous = current /\ pct.num = 0 /\ pct.den # 0

\* C25: in every SlaughterWeek that fetchLMPRSlaughter, fetchCattleSlaughter
\* or the demo provider emits, percentChangeWeek is (cattleSlaughter -
\* previousWeek) / previousWeek * 100 when previousWeek > 0 and 0 otherwise,
\* and likewise percentChangeYear against previousYear; a previous count
\* that is missing, zero or unparsable is replaced by the count of the
\* current week, and the percent change is then 0.
C25_PercentChange ==
  /\ pc = "done" /\ endpoint = "slaughter" =>
       \A i \in 1..Len(Answer.data) : DerivedFields(Answer.data[i])
  /\ last.adapter \in {"fetchLMPRSlaughter", "fetchCattleSlaughter"} /\ ~last.result.thrown =>
       \A i \in 1..Len(last.result.value) : DerivedFields(last.result.value[i])
  /\ last.adapter = "fetchLMPRSlaughter" /\ HasRecords(last.result) =>
       LET items == Unwrap(last.resps[1].body)
           weeks == last.result.value
       IN \A i \in 1..Len(weeks) :
            /\ ReplacedByCurrent(
                 CountOf(OrJS(Get(items[i], "previous_week_slaughter"), Get(items[i], "prev_week"))),
                 weeks[i].previousWeek, weeks[i].cattleSlaughter, weeks[i].percentChangeWeek)
            /\ ReplacedByCurrent(
                 CountOf(OrJS(Get(items[i], "year_ago_slaughter"), Get(items[i], "prev_year"))),
                 weeks[i].previousYear, weeks[i].cattleSlaughter, weeks[i].percentChangeYear)
  /\ last.adapter = "fetchCattleSlaughter" /\ HasRecords(last.result) =>
       LET weeks == last.result.value
       IN \A i \in 1..Len(weeks) :
            /\ ReplacedByCurrent(IF i < Len(weeks) THEN weeks[i + 1].cattleSlaughter ELSE 0,
                                 weeks[i].previousWeek, weeks[i].cattleSlaughter,
                                 weeks[i].percentChangeWeek)
            /\ weeks[i].previousYear = weeks[i].cattleSlaughter

\* fetchLMPRSlaughter emitted a week whose previous-week count was given
\* and whose year-ago count could not be parsed
C25_Witness ==
  /\ pc = "done"
  /\ endpoint = "slaughter"
  /\ last.adapter = "fetchLMPRSlaughter"
  /\ HasRecords(last.result)
  /\ Answer.from = "adapter"
  /\ \E i \in 1..Len(Answer.data) :
       /\ Answer.data[i].previousWeek = Answer.data[i].cattleSlaughter
       /\ Answer.data[i].cattleSlaughter > 0
       /\ Get(Unwrap(last.resps[1].body)[i], "prev_week") = Str("n/a")
  /\ \E i \in 1..Len(Answer.data) :
       /\ Answer.data[i].previousWeek # Answer.data[i].cattleSlaughter
       /\ Answer.data[i].percentChangeWeek.num # 0

\* the records of the answer fetchCattleSlaughter used
QueryRecords ==
  IF Len(last.resps) = 0 THEN <<>> ELSE Unwrap(fetchNASS(TRUE, last.resps[1]))

\* the records that are not withheld and have a value
KeptRecords == SelectSeq(QueryRecords, NASSKeep)

\* week is the SlaughterWeek of a record that is kept
FromKept(week) ==
  \E k \in 1..Len(KeptRecords) :
    /\ week.weekEnding = Get(KeptRecords[k], "week_ending")
    /\ week.cattleSlaughter = CountOf(Str(StripCommas(Get(KeptRecords[k], "Value").s)))

\* C26: fetchCattleSlaughter queries the national series only if the
\* Nebraska state query returned null or an empty list.  Its output leaves
\* out the records whose Value is empty or the withheld marker "(D)", is
\* ordered by week ending from newest to oldest, has at most 10 records,
\* and the previousWeek of each record is the cattleSlaughter of the
\* next-older record emitted when that count is not 0, while the
\* previousWeek of the oldest record emitted is its own count, also when
\* there are older records upstream.  (Week endings are dates that parse.)
C26_CattleSlaughter ==
  /\ pc = "nassNational" => NASSEmpty(stateData)
  /\ last.adapter = "fetchCattleSlaughter" /\ ~last.result.thrown =>
       LET weeks == last.result.value
       IN /\ Len(weeks) <= 10
          /\ Len(weeks) = IF Len(KeptRecords) < 10 THEN Len(KeptRecords) ELSE 10
          /\ \A i \in 1..Len(weeks) : FromKept(weeks[i])
          /\ \A i \in 1..Len(weeks) : \A j \in (i + 1)..Len(weeks) :
               DateTime(weeks[i].weekEnding).n >= DateTime(weeks[j].weekEnding).n
          /\ \A i \in 1..(Len(weeks) - 1) :
               weeks[i + 1].cattleSlaughter # 0 =>
                 weeks[i].previousWeek = weeks[i + 1].cattleSlaughter
          /\ Len(weeks) > 0 => weeks[Len(weeks)].previousWeek = weeks[Len(weeks)].cattleSlaughter

\* the state query was empty, the national query answered with 12 weeks
\* that are not withheld, oldest first; the 10 newest were emitted
C26_Witness ==
  /\ pc = "done"
  /\ endpoint = "slaughter"
  /\ last.adapter = "fetchCattleSlaughter"
  /\ stateData = Body("array", <<>>)
  /\ Len(KeptRecords) = 12
  /\ QueryRecords[1] = SeriesRecord(1)
  /\ HasRecords(last.result)
  /\ Len(last.result.value) = 10
  /\ last.result.value[1].weekEnding = Str("2025-12-27")
  /\ last.result.value[10].previousWeek = last.result.value[10].cattleSlaughter

\* the position in the catalog of the barn named name
CatalogIndex(name) ==
  CHOOSE i \in 1..Len(NEBRASKA_SALE_BARNS) : NEBRASKA_SALE_BARNS[i].name = name

\* the number of requests issued for barn
RequestsFor(barn) == Cardinality({i \in 1..Len(fetches) : fetches[i].barn = barn})

\* C27: given a slug list that is not empty, fetchNebraskaAuctions issues
\* exactly one request per catalog barn whose slug is in the list (a slug
\* that occurs twice causes one request, a slug that is not in the catalog
\* none), the reports returned are in catalog order whatever the order of
\* the slugs, and when no slug is in the catalog it issues no request and
\* returns an empty list.
C27_OnePerCatalogBarn ==
  endpoint = "auctions" /\ Len(RequestSlugs) > 0 =>
    /\ \A k \in 1..Len(NEBRASKA_SALE_BARNS) :
         RequestsFor(NEBRASKA_SALE_BARNS[k]) =
           IF NEBRASKA_SALE_BARNS[k].slug \in Range(RequestSlugs) THEN 1 ELSE 0
    /\ \A i \in 1..Len(fetches) : fetches[i].barn \in Range(NEBRASKA_SALE_BARNS)
    /\ last.adapter = "fetchNebraskaAuctions" /\ ~last.result.thrown =>
         \A i \in 1..Len(last.result.value) : \A j \in (i + 1)..Len(last.result.value) :
           CatalogIndex(last.result.value[i].marketName)
             < CatalogIndex(last.result.value[j].marketName)
    /\ (\A k \in 1..Len(NEBRASKA_SALE_BARNS) :
          NEBRASKA_SALE_BARNS[k].slug \notin Range(RequestSlugs)) =>
         /\ fetches = <<>>
         /\ last.adapter = "fetchNebraskaAuctions"
         /\ last.result = Returned(<<>>)

\* 1836 was asked for twice, before and after 1860: two requests were
\* issued and the report of 1860 comes first
C27_Witness ==
  /\ endpoint = "auctions"
  /\ arg = Str("1836,1860,1836")
  /\ pc = "done"
  /\ Len(fetches) = 2
  /\ HasRecords(last.result)
  /\ Len(last.result.value) = 2
  /\ last.result.value[1].marketName = "Nebraska Weekly Summary"
  /\ last.result.value[2].marketName = "Bassett Livestock Auction"

\* no fetchData call is in flight
NoneInFlight == \A i \in 1..Len(requests) : requests[i].settled

\* C28: in AuctionSales, for any interleaving of selection changes,
\* refreshes and response arrivals, once all requests in flight have
\* settled the reports displayed are the response to the request issued
\* last (a slower response to an earlier selection never overwrites a later
\* one), and loading is false only when no request is in flight.
C28_LatestWins ==
  /\ ~loading => NoneInFlight
  /\ Len(requests) > 0 /\ NoneInFlight /\ requests[Len(requests)].answer.status = 200 =>
       reports = requests[Len(requests)].answer.data

\* the request whose response set the reports that are displayed
SetReports(i) ==
  /\ requests[i].settled
  /\ requests[i].answer.status = 200
  /\ \A j \in 1..Len(requests) :
       requests[j].settled /\ requests[j].answer.status = 200 => requests[j].at <= requests[i].at

\* C29: whenever AuctionSales displays records that came with an error or
\* status text that is not null from the auctions endpoint (demo data or
\* the cached fallback), a provenance message is visible with the records,
\* in the by-barn view and in the compare view, also after the view has
\* switched to compare on the selection of two or more barns.
C29_ProvenanceShown ==
  RecordsShown /\ (\E i \in 1..Len(requests) : SetReports(i) /\ requests[i].answer.error # Null)
    => MessageShown

(***************************************************************************)
(* C30: toSlug, getMarketName and getRegionName.                           *)
(***************************************************************************)
\* s has only lowercase letters, digits and single hyphens, and no hyphen
\* at either end
IsSlug(s) ==
  /\ \A i \in 1..Len(s) : IsLowerAlnum(SubSeq(s, i, i)) \/ SubSeq(s, i, i) = "-"
  /\ ~ Includes(s, "--")
  /\ s # "" => SubSeq(s, 1, 1) # "-" /\ SubSeq(s, Len(s), Len(s)) # "-"

\* toSlug has ended after the calls named
Slugged(calls) ==
  /\ Len(trace) = 2 * Len(calls)
  /\ \A i \in 1..Len(calls) : trace[2 * i].adapter = calls[i]

\* a lookup of the slug of arg and toSlug of what it returned have ended
RoundTripDone ==
  \/ Slugged(<<"toSlug", "getMarketName", "toSlug">>)
  \/ Slugged(<<"toSlug", "getRegionName", "toSlug">>)

\* C30: every output of toSlug has only lowercase letters, digits and single
\* hyphens with no hyphen at either end; toSlug of a toSlug output is that
\* output; and for every toSlug output s, toSlug(getMarketName(s)) = s and
\* toSlug(getRegionName(s)) = s, every key of MARKET_MAP and of REGION_MAP
\* among them.
C30_SlugRoundTrip ==
  /\ Slugged(<<"toSlug">>) => ~ last.result.thrown /\ IsSlug(last.result.value.s)
  /\ Slugged(<<"toSlug", "toSlug">>) => last.result = Returned(last.resps[1])
  /\ RoundTripDone => last.result = Returned(Str(toSlug(arg.s)))
  /\ RoundTripDone /\ arg.s \in DOMAIN MARKET_MAP \cup DOMAIN REGION_MAP
       => last.result = Returned(arg)
====
